---- MODULE Spec2Model ----
(***************************************************************************)
(* Model of the otomata-worker execution plane: the Task Store             *)
(* (task_manager.py), the worker loop (worker.py) and the message-submit   *)
(* handler (server.py), over one shared PostgreSQL store at the default    *)
(* READ COMMITTED isolation level.                                         *)
(*                                                                         *)
(* Every TaskManager method opens its own session (database.get_session):  *)
(* the rows it reads are loaded by a plain SELECT, the changes are flushed *)
(* as UPDATE/DELETE ... WHERE id = ? when the session commits.  Methods    *)
(* whose write depends on what they read (retry, cancel, send_message) are *)
(* therefore two steps here, a read and a write; claim holds a row lock    *)
(* (FOR UPDATE SKIP LOCKED) between its two steps.                         *)
(***************************************************************************)
EXTENDS Integers, Sequences, FiniteSets, TLC

\* ---- bounds -----------------------------------------------------------
MaxTasks == 2          \* rows ever inserted into tasks
NumWorkers == 2        \* worker processes in Spec
NumClients == 2        \* concurrent API callers (HTTP / CLI) in Spec
NumChats == 1          \* existing chats
NumClaimers == 3       \* workers calling claim once in ClaimSpec
MaxPending == 3        \* pending rows at the start of ClaimSpec
MaxMessages == 4       \* rows ever inserted into messages
NumConsumers == 2      \* coroutines in the snapshot / wait cycle on one task
MaxElapsed == 9        \* half seconds the clock advances in one behaviour
NumCallers == 3        \* processes calling the rate limiter at once
MaxBurst == 3          \* requests recorded before the callers stop asking
MaxIdentities == 2     \* rows of the identities table
MaxTicks == 1          \* seconds that pass while the identities are in use
MaxUserId == 1         \* user ids run from 0 to MaxUserId
MaxFaults == 1         \* durable event writes that fail in one behaviour
MaxStoreErrors == 2    \* store errors raised on add_message, complete and fail
MaxEvents == 3         \* no agent run starts once task_events has this many rows

\* ---- values -----------------------------------------------------------
NULL == <<>>
Some(v) == <<v>>
Val(x) == x[1]

Workers == 1..NumWorkers
Clients == 1..NumClients
Chats == 1..NumChats
Claimers == 1..NumClaimers
TaskTypes == {"script"}      \* kind given to `task create`; the store never reads it
Outcomes == {"success", "failure", "exception"}

VARIABLES
    tasks,      \* the tasks table: id -> row, DOMAIN tasks = existing ids
    next_id,    \* the serial of tasks.id
    wpc,        \* worker -> position in Worker.run / process_one
    wtask,      \* worker -> the task id process_one holds
    cpc,        \* client -> position in its request
    carg,       \* client -> the id the request has read
    last,       \* serial specifications: the last call and what it returned
    messages,       \* the messages table, rows in insert order
    events,         \* event_store.events: task id -> in-memory tail
    event_signals,  \* event_store.event_signals: task id -> asyncio.Event is set
    task_events,    \* the task_events table, rows in insert order
    orch,           \* the locals of the agent turn a worker is executing
    sub,            \* the locals of the SSE generator stream_events
    calls,          \* the settle calls process_one made on its last run
    faults,         \* store errors raised so far
    emitted,        \* task id -> every event add_event was called with
    running,        \* worker -> Worker.running
    now,            \* the clock: datetime.utcnow(), in half seconds
    rate_limits,    \* the rate_limits table, rows in insert order
    recorded,       \* RateSpec, BurstSpec: every record_request, identity and instant
    identities,     \* the identities table: id -> row
    secrets,        \* the secrets table, rows in insert order
    cons,           \* consumer -> the locals of its snapshot / wait cycle
    reply,          \* the last service call and what it returned
    environ         \* os.environ of the worker process: name -> value

\* the chat store, the event bus and their callers
chatvars == <<messages, events, event_signals, task_events, orch, sub, calls,
              faults, emitted>>
\* the run flag, the clock, the rate limiter, the identity registry, the
\* secrets vault, the event bus consumers
svcvars == <<running, now, rate_limits, recorded, identities, secrets, cons,
             reply, environ>>
vars == <<tasks, next_id, wpc, wtask, cpc, carg, last, chatvars, svcvars>>

\* datetime.utcnow(): the stamps started_at and completed_at are written and
\* never read back by the program, so one token stands for every instant
utcnow == "utcnow"

\* ---- models.py: Task ----------------------------------------------------
\* created_at defaults to the time of the INSERT: it grows with the serial
\* id, which is the value used for it here
TaskRow(type, chat, prompt, t) ==
    [status |-> "pending", task_type |-> type, chat_id |-> chat,
     prompt |-> prompt, claimed_by |-> NULL, created_at |-> t, started_at |-> NULL,
     completed_at |-> NULL, error |-> NULL, result |-> NULL]

\* ---- task_manager.py: pure effects on the table ---------------------------
\* create: INSERT a pending row; chat_id is left to its default, NULL, and
\* so is the prompt of a script task
create(store, id, type) ==
    [i \in DOMAIN store \cup {id} |->
        IF i = id THEN TaskRow(type, NULL, NULL, id) ELSE store[i]]

\* create as send_message calls it, with prompt=req.content and
\* chat_id=chat_id: the row is linked to the chat
create_for_chat(store, id, type, chat, prompt) ==
    [i \in DOMAIN store \cup {id} |->
        IF i = id THEN TaskRow(type, Some(chat), Some(prompt), id)
        ELSE store[i]]

\* claim, lines 65-77: SELECT id WHERE status='pending' ORDER BY created_at
\* LIMIT 1 FOR UPDATE SKIP LOCKED.  The set of candidate rows.
claimable(store, lockedRows) ==
    {i \in DOMAIN store : store[i].status = "pending" /\ i \notin lockedRows}

\* variant: the SELECT without SKIP LOCKED / without the row lock
claim_select_nolock(store, lockedRows) ==
    LET cand == claimable(store, {}) IN
    IF cand = {} THEN NULL
    ELSE Some(CHOOSE i \in cand :
                \A j \in cand : store[i].created_at <= store[j].created_at)

\* variant: ORDER BY created_at DESC
claim_select_lifo(store, lockedRows) ==
    LET cand == claimable(store, lockedRows) IN
    IF cand = {} THEN NULL
    ELSE Some(CHOOSE i \in cand :
                \A j \in cand : store[i].created_at >= store[j].created_at)

claim_select(store, lockedRows) ==
    LET cand == claimable(store, lockedRows) IN
    IF cand = {} THEN NULL
    ELSE Some(CHOOSE i \in cand :
                \A j \in cand : store[i].created_at <= store[j].created_at)

\* variant: the UPDATE never reaches the row
claim_update_unflushed(store, id, worker_id) == store

\* claim, lines 79-86: the UPDATE of the locked row
claim_update(store, id, worker_id) ==
    [store EXCEPT ![id] = [@ EXCEPT !.status = "running",
                                    !.claimed_by = Some(worker_id),
                                    !.started_at = Some(utcnow)]]

complete(store, id, result) ==
    IF id \in DOMAIN store
    THEN [store EXCEPT ![id] = [@ EXCEPT !.status = "completed",
                                         !.completed_at = Some(utcnow),
                                         !.result = Some(result)]]
    ELSE store

fail(store, id, error) ==
    IF id \in DOMAIN store
    THEN [store EXCEPT ![id] = [@ EXCEPT !.status = "failed",
                                         !.completed_at = Some(utcnow),
                                         !.error = Some(error)]]
    ELSE store

\* variant: any settled task may be retried
retry_check_settled(store, id) ==
    id \in DOMAIN store /\ store[id].status \in {"failed", "completed"}

\* retry, line 178: the condition on the loaded row
retry_check(store, id) ==
    id \in DOMAIN store /\ store[id].status = "failed"

\* retry, lines 179-183: UPDATE ... WHERE id = ?
retry_update(store, id) ==
    IF id \in DOMAIN store
    THEN [store EXCEPT ![id] = [@ EXCEPT !.status = "pending",
                                         !.claimed_by = NULL,
                                         !.started_at = NULL,
                                         !.completed_at = NULL,
                                         !.error = NULL]]
    ELSE store

\* cancel, line 198
cancel_check(store, id) ==
    id \in DOMAIN store /\ store[id].status = "pending"

\* cancel, line 199: DELETE ... WHERE id = ?
cancel_delete(store, id) ==
    [i \in DOMAIN store \ {id} |-> store[i]]

\* active_for_chat: the tasks of the chat that are pending or running
get_active_task_for_chat(store, chat) ==
    {i \in DOMAIN store : store[i].chat_id = Some(chat)
                          /\ store[i].status \in {"pending", "running"}}

\* ---- chat_manager.py: pure effects on the messages table -----------------
Roles == {"user", "assistant"}       \* models.py MessageRole

\* the rows of one chat, in insert order
MessagesOf(table, chat) ==
    SelectSeq(table, LAMBDA m : m.chat_id = chat)

\* add_message, lines 223-225: SELECT max(sequence) WHERE chat_id = ?, or 0
max_sequence(table, chat) ==
    LET seqs == {table[i].sequence :
                    i \in {j \in DOMAIN table : table[j].chat_id = chat}} IN
    IF seqs = {} THEN 0
    ELSE CHOOSE m \in seqs : \A n \in seqs : n <= m

\* add_message, lines 227-237: INSERT the row with sequence max_seq + 1
add_message(table, chat, role, content, max_seq) ==
    Append(table, [chat_id |-> chat, role |-> role, content |-> content,
                   sequence |-> max_seq + 1])

\* ---- executors/agent.py: one run of the agent ------------------------------
\* an event as add_event builds it: the type and the payload fields the
\* orchestrator passes (turn, count, and one text: the block's content, the
\* tool's name, str(e) or the model's name)
Event(type, turn, count, text) ==
    [type |-> type, turn |-> turn, count |-> count, text |-> text]

\* the dict execute_task hands to process_one; raised: it is an exception
\* carrying error instead
Result(success, output, error, raised) ==
    [success |-> success, output |-> output, error |-> error,
     raised |-> raised]

\* what the SDK's query() yields: AssistantMessage with TextBlock and
\* ToolUseBlock content, ResultMessage
AssistantMessage(content) == [kind |-> "assistant", content |-> content]
ResultMessage == [kind |-> "result", content |-> <<>>]

\* the streams a run is tried on: nothing at all, one turn of text, one
\* tool call, and two turns (text with a tool call, then text) closed by
\* the usage message
Streams ==
    {<<>>,
     <<AssistantMessage(<<"text">>)>>,
     <<AssistantMessage(<<"tool_use">>), ResultMessage>>,
     <<AssistantMessage(<<"text", "tool_use">>),
       AssistantMessage(<<"text">>), ResultMessage>>}

\* one run: is the SDK importable, what the stream yields, and where an
\* exception is raised: nowhere, while the options are built (lines 59-85,
\* before start is emitted), or by the stream after its last message
Runs ==
    {[sdk |-> FALSE, fault |-> "none", items |-> <<>>],
     [sdk |-> TRUE, fault |-> "setup", items |-> <<>>]}
    \cup [sdk : {TRUE}, fault : {"none", "stream"}, items : Streams]

\* lines 90-94
Acc0 ==
    [emitted |-> <<>>, response_text |-> <<>>, tool_count |-> 0,
     turn_count |-> 0, has_text |-> FALSE, tools_used |-> 0]

\* lines 108-133: the blocks of one AssistantMessage; response_text += text
\* is the concatenation of the blocks' texts, kept as their sequence
RECURSIVE consume_blocks(_, _)
consume_blocks(acc, blocks) ==
    IF blocks = <<>> THEN acc
    ELSE consume_blocks(
            IF Head(blocks) = "text"
            THEN [acc EXCEPT !.response_text = @ \o <<"a">>,
                             !.has_text = TRUE,
                             !.emitted = Append(@, Event("text",
                                                  acc.turn_count, 0, "a"))]
            ELSE [acc EXCEPT !.tool_count = @ + 1,
                             !.tools_used = @ + 1,
                             !.emitted = Append(@, Event("tool_use", 0,
                                                  acc.tool_count + 1, "Bash"))],
            Tail(blocks))

\* lines 96-137: the single traversal of the stream
RECURSIVE consume(_, _)
consume(acc, items) ==
    IF items = <<>> THEN acc
    ELSE IF Head(items).kind = "result" THEN consume(acc, Tail(items))
    ELSE LET a0 == [acc EXCEPT !.turn_count = @ + 1, !.has_text = FALSE,
                               !.tools_used = 0]
             a1 == consume_blocks(a0, Head(items).content)
             a2 == IF a1.has_text /\ a1.tools_used = 0
                   THEN [a1 EXCEPT !.emitted = Append(@, Event("thinking",
                                                   a1.turn_count, 0, ""))]
                   ELSE a1
         IN consume(a2, Tail(items))

\* execute_agent, lines 38-159: the events it emits, in order, and the dict
\* it returns
execute_agent(prompt, run, emit_events) ==
    LET out(evs, res) ==
            [emitted |-> IF emit_events THEN evs ELSE <<>>, result |-> res]
    IN
    IF ~run.sdk
    THEN out(<<>>, Result(FALSE, <<>>, "claude-agent-sdk not installed", FALSE))
    ELSE IF prompt = NULL \/ prompt = Some("")
    THEN out(<<>>, Result(FALSE, <<>>, "No prompt provided", FALSE))
    ELSE IF run.fault = "setup"
    THEN out(<<Event("error", 0, 0, "boom")>>,
             Result(FALSE, <<>>, "boom", FALSE))
    ELSE LET acc == consume([Acc0 EXCEPT !.emitted =
                                <<Event("start", 0, 0, "model")>>],
                            run.items)
         IN IF run.fault = "stream"
            THEN out(Append(acc.emitted, Event("error", 0, 0, "boom")),
                     Result(FALSE, <<>>, "boom", FALSE))
            ELSE out(Append(acc.emitted,
                            Event("complete", 0, acc.tool_count, "totals")),
                     Result(TRUE, acc.response_text, "", FALSE))

\* ---- events.py: TaskEventStore ---------------------------------------------
\* dict.pop(key, None)
pop(f, key) == [k \in DOMAIN f \ {key} |-> f[k]]

\* add_event, line 26: events is a defaultdict(list)
tail_append(tails, id, event) ==
    [k \in DOMAIN tails \cup {id} |->
        IF k = id
        THEN Append(IF id \in DOMAIN tails THEN tails[id] ELSE <<>>, event)
        ELSE tails[k]]

\* _save_to_db, lines 40-42: SELECT max(sequence) WHERE task_id = ?, or 0
max_event_sequence(table, id) ==
    LET seqs == {table[i].sequence :
                    i \in {j \in DOMAIN table : table[j].task_id = id}} IN
    IF seqs = {} THEN 0
    ELSE CHOOSE m \in seqs : \A n \in seqs : n <= m

\* _save_to_db, lines 44-50: INSERT the row with sequence max_seq + 1
save_to_db(table, id, event) ==
    Append(table, [task_id |-> id, event |-> event,
                   sequence |-> max_event_sequence(table, id) + 1])

\* add_event, lines 32-33: set the Event of the waiters, if there is one
signal_set(signals, id) ==
    [k \in DOMAIN signals |-> IF k = id THEN TRUE ELSE signals[k]]

\* a whole run's add_event calls on the durable table, in order
RECURSIVE save_all(_, _, _)
save_all(table, id, evs) ==
    IF evs = <<>> THEN table
    ELSE save_all(save_to_db(table, id, Head(evs)), id, Tail(evs))

\* ---- worker.py: execute_task ----------------------------------------------
\* the error text process_one passes to fail
ErrorText(o) == IF o = "failure" THEN "error" ELSE "exception"

\* a str, as the sequence of the pieces it is concatenated from
Text(str) == IF str = "" THEN <<>> ELSE <<str>>

\* variant: the assistant's message is appended before the user's
execute_chat_agent_swapped(task, run, table) ==
    LET chat == Val(task.chat_id) IN
    IF chat \notin Chats
    THEN [result |-> Result(FALSE, <<>>, "Chat not found", FALSE),
          emitted |-> <<>>, messages |-> table, cleanup |-> FALSE]
    ELSE LET r == execute_agent(task.prompt, run, TRUE)
             m1 == add_message(table, chat, "assistant", r.result.output,
                               max_sequence(table, chat))
             m2 == add_message(m1, chat, "user", Text(Val(task.prompt)),
                               max_sequence(m1, chat))
         IN [result |-> r.result, emitted |-> r.emitted,
             messages |-> IF r.result.success THEN m2 ELSE table,
             cleanup |-> TRUE]

\* variant: the user's message is saved whether or not the turn succeeded
execute_chat_agent_keeps_prompt(task, run, table) ==
    LET chat == Val(task.chat_id) IN
    IF chat \notin Chats
    THEN [result |-> Result(FALSE, <<>>, "Chat not found", FALSE),
          emitted |-> <<>>, messages |-> table, cleanup |-> FALSE]
    ELSE LET r == execute_agent(task.prompt, run, TRUE)
             m1 == add_message(table, chat, "user", Text(Val(task.prompt)),
                               max_sequence(table, chat))
             m2 == add_message(m1, chat, "assistant", r.result.output,
                               max_sequence(m1, chat))
         IN [result |-> r.result, emitted |-> r.emitted,
             messages |-> IF r.result.success THEN m2
                          ELSE IF task.prompt \in {NULL, Some("")} THEN table
                          ELSE m1,
             cleanup |-> TRUE]

\* _execute_chat_agent, lines 78-113: the result, the events emitted, the
\* messages table afterwards, and whether cleanup was reached.  The history
\* read at line 82 only feeds the prompt given to the SDK.
execute_chat_agent(task, run, table) ==
    LET chat == Val(task.chat_id) IN
    IF chat \notin Chats
    THEN [result |-> Result(FALSE, <<>>, "Chat not found", FALSE),
          emitted |-> <<>>, messages |-> table, cleanup |-> FALSE]
    ELSE LET r == execute_agent(task.prompt, run, TRUE)
             m1 == add_message(table, chat, "user", Text(Val(task.prompt)),
                               max_sequence(table, chat))
             m2 == add_message(m1, chat, "assistant", r.result.output,
                               max_sequence(m1, chat))
         IN [result |-> r.result, emitted |-> r.emitted,
             messages |-> IF r.result.success THEN m2 ELSE table,
             cleanup |-> TRUE]

\* execute_task, lines 36-74: dispatch on task_type.  o is what the script
\* invoker does (returns success, returns failure, raises), run what the
\* agent does.
execute_task(task, o, run, table) ==
    IF task.task_type = "script"
    THEN [result |-> IF o = "success"
                     THEN Result(TRUE, Text("stdout"), "", FALSE)
                     ELSE Result(FALSE, <<>>, ErrorText(o), o = "exception"),
          emitted |-> <<>>, messages |-> table, cleanup |-> FALSE]
    ELSE IF task.task_type = "agent"
    THEN IF task.chat_id # NULL
         THEN execute_chat_agent(task, run, table)
         ELSE [result |-> execute_agent(task.prompt, run, FALSE).result,
               emitted |-> <<>>, messages |-> table, cleanup |-> FALSE]
    ELSE [result |-> Result(FALSE, <<>>, "Unknown task type", FALSE),
          emitted |-> <<>>, messages |-> table, cleanup |-> FALSE]

\* rows locked by a claim that has selected and not yet committed
LockedRows ==
    {Val(wtask[w]) : w \in {x \in DOMAIN wpc : wpc[x] = "claiming"}}


\* ---- initial state: empty table, every process at the top of its loop ----
\* no message, no event, no turn in progress, no stream open
NoTurn == [queue |-> <<>>, result |-> NULL]
NoStream ==
    [pc |-> "none", task |-> NULL, event_index |-> 0, got |-> <<>>,
     early |-> FALSE]

ChatInit ==
    /\ messages = <<>>
    /\ events = <<>>
    /\ event_signals = <<>>
    /\ task_events = <<>>
    /\ orch = NoTurn
    /\ sub = NoStream
    /\ calls = <<>>
    /\ faults = 0
    /\ emitted = <<>>

\* ---- time ---------------------------------------------------------------
\* Instants are counted in half seconds, so that int(total_seconds()) has
\* something to drop.  The hour of timedelta(hours=1) is scaled to two
\* seconds; a calendar day is 24 of them.
Second == 2
Hour == 2 * Second
Day == 24 * Hour
\* the program is started two hours before midnight
Start == Day - 2 * Hour

Reply(op, ok, value) == [op |-> op, ok |-> ok, value |-> value]
NoReply == Reply("none", FALSE, NULL)
Consumers == 1..NumConsumers
NoWait ==
    [pc |-> "idle", event_index |-> 0, early |-> FALSE, hit |-> FALSE,
     ret |-> "none"]

SvcInit ==
    /\ running = [w \in Workers |-> TRUE]
    /\ now = Start
    /\ rate_limits = <<>>
    /\ recorded = <<>>
    /\ identities = <<>>
    /\ secrets = <<>>
    /\ cons = [c \in Consumers |-> NoWait]
    /\ reply = NoReply
    /\ environ = <<>>

NoCall == [op |-> "none", arg |-> NULL, ret |-> "none", task |-> NULL]

Init ==
    /\ tasks = <<>>
    /\ next_id = 1
    /\ wpc = [w \in Workers |-> "poll"]
    /\ wtask = [w \in Workers |-> NULL]
    /\ cpc = [c \in Clients |-> "idle"]
    /\ carg = [c \in Clients |-> NULL]
    /\ last = NoCall
    /\ ChatInit
    /\ SvcInit

\* inserts already decided on by a send_message that passed its check
Reserved == Cardinality({c \in DOMAIN cpc : cpc[c] = "submit"})

\* ---- cli.py task_create -> TaskManager.create ----------------------------
CreateTask(type) ==
    /\ next_id + Reserved <= MaxTasks
    /\ tasks' = create(tasks, next_id, type)
    /\ next_id' = next_id + 1
    /\ UNCHANGED <<wpc, wtask, cpc, carg, last, chatvars, svcvars>>

\* ---- worker.py process_one / task_manager.py claim -----------------------
\* claim, first statement: select and lock the candidate, or return None
\* (process_one returns False and run sleeps)
ClaimSelect(w) ==
    /\ wpc[w] = "poll"
    /\ LET row == claim_select(tasks, LockedRows) IN
       IF row = NULL
       THEN /\ wpc' = [wpc EXCEPT ![w] = "sleep"]
            /\ UNCHANGED wtask
       ELSE /\ wpc' = [wpc EXCEPT ![w] = "claiming"]
            /\ wtask' = [wtask EXCEPT ![w] = row]
    /\ UNCHANGED <<tasks, next_id, cpc, carg, last, chatvars, svcvars>>

\* claim, update and commit: releases the row lock
ClaimCommit(w) ==
    /\ wpc[w] = "claiming"
    /\ tasks' = claim_update(tasks, Val(wtask[w]), w)
    /\ wpc' = [wpc EXCEPT ![w] = "exec"]
    /\ UNCHANGED <<next_id, wtask, cpc, carg, last, chatvars, svcvars>>

\* process_one, lines 130-140: complete on success, fail otherwise
settle(store, id, o) ==
    IF o = "success" THEN complete(store, id, "result")
    ELSE fail(store, id, ErrorText(o))

\* process_one, lines 127-142: execute_task returns success, returns
\* failure or raises, and the task is settled in a session of its own; the
\* UPDATE waits for a row lock held by a claim
ExecuteAndSettle(w) ==
    /\ wpc[w] = "exec"
    /\ Val(wtask[w]) \notin LockedRows
    /\ \E o \in Outcomes : tasks' = settle(tasks, Val(wtask[w]), o)
    /\ wpc' = [wpc EXCEPT ![w] = "poll"]
    /\ wtask' = [wtask EXCEPT ![w] = NULL]
    /\ UNCHANGED <<next_id, cpc, carg, last, chatvars, svcvars>>

\* run, line 162: time.sleep(poll_interval) is over
Wake(w) ==
    /\ wpc[w] = "sleep"
    /\ wpc' = [wpc EXCEPT ![w] = "poll"]
    /\ UNCHANGED <<tasks, next_id, wtask, cpc, carg, last, chatvars, svcvars>>

\* ---- retry: load the row, then flush the UPDATE --------------------------
RetryRead(c, id) ==
    /\ cpc[c] = "idle"
    /\ IF retry_check(tasks, id)
       THEN /\ cpc' = [cpc EXCEPT ![c] = "retry"]
            /\ carg' = [carg EXCEPT ![c] = Some(id)]
       ELSE UNCHANGED <<cpc, carg>>
    /\ UNCHANGED <<tasks, next_id, wpc, wtask, last, chatvars, svcvars>>

RetryWrite(c) ==
    /\ cpc[c] = "retry"
    /\ Val(carg[c]) \notin LockedRows
    /\ tasks' = retry_update(tasks, Val(carg[c]))
    /\ cpc' = [cpc EXCEPT ![c] = "idle"]
    /\ carg' = [carg EXCEPT ![c] = NULL]
    /\ UNCHANGED <<next_id, wpc, wtask, last, chatvars, svcvars>>

\* ---- cancel: load the row, then flush the DELETE -------------------------
CancelRead(c, id) ==
    /\ cpc[c] = "idle"
    /\ IF cancel_check(tasks, id)
       THEN /\ cpc' = [cpc EXCEPT ![c] = "cancel"]
            /\ carg' = [carg EXCEPT ![c] = Some(id)]
       ELSE UNCHANGED <<cpc, carg>>
    /\ UNCHANGED <<tasks, next_id, wpc, wtask, last, chatvars, svcvars>>

CancelWrite(c) ==
    /\ cpc[c] = "cancel"
    /\ Val(carg[c]) \notin LockedRows
    /\ tasks' = cancel_delete(tasks, Val(carg[c]))
    /\ cpc' = [cpc EXCEPT ![c] = "idle"]
    /\ carg' = [carg EXCEPT ![c] = NULL]
    /\ UNCHANGED <<next_id, wpc, wtask, last, chatvars, svcvars>>

\* ---- server.py send_message: check, then create --------------------------
\* variant: the active task is looked up but never refused
send_message_conflict_never(active) == FALSE

\* line 155: the submit is refused when the chat has an active task
send_message_conflict(active) == active # {}

SendCheck(c, chat) ==
    /\ cpc[c] = "idle"
    /\ next_id + Reserved <= MaxTasks
    /\ IF send_message_conflict(get_active_task_for_chat(tasks, chat))
       THEN UNCHANGED <<cpc, carg>>
       ELSE /\ cpc' = [cpc EXCEPT ![c] = "submit"]
            /\ carg' = [carg EXCEPT ![c] = Some(chat)]
    /\ UNCHANGED <<tasks, next_id, wpc, wtask, last, chatvars, svcvars>>

SendCreate(c) ==
    /\ cpc[c] = "submit"
    /\ tasks' = create_for_chat(tasks, next_id, "agent", Val(carg[c]), "ping")
    /\ next_id' = next_id + 1
    /\ cpc' = [cpc EXCEPT ![c] = "idle"]
    /\ carg' = [carg EXCEPT ![c] = NULL]
    /\ UNCHANGED <<wpc, wtask, last, chatvars, svcvars>>

Next ==
    \/ \E type \in TaskTypes : CreateTask(type)
    \/ \E w \in Workers : ClaimSelect(w)
    \/ \E w \in Workers : ClaimCommit(w)
    \/ \E w \in Workers : ExecuteAndSettle(w)
    \/ \E w \in Workers : Wake(w)
    \/ \E c \in Clients, id \in 1..MaxTasks : RetryRead(c, id)
    \/ \E c \in Clients : RetryWrite(c)
    \/ \E c \in Clients, id \in 1..MaxTasks : CancelRead(c, id)
    \/ \E c \in Clients : CancelWrite(c)
    \/ \E c \in Clients, chat \in Chats : SendCheck(c, chat)
    \/ \E c \in Clients : SendCreate(c)

Spec == Init /\ [][Next]_vars


\* ---- PollSpec: tasks are created, the workers poll -----------------------
\* Worker 1 keeps polling: run calls process_one again after each call and
\* after each sleep, and the executor call terminates.  The other workers
\* may stop anywhere, except inside the claim's transaction, which commits
\* (a session that dies is rolled back by the server and frees the row).
PollNext ==
    \/ \E type \in TaskTypes : CreateTask(type)
    \/ \E w \in Workers : ClaimSelect(w)
    \/ \E w \in Workers : ClaimCommit(w)
    \/ \E w \in Workers : ExecuteAndSettle(w)
    \/ \E w \in Workers : Wake(w)

PollFair ==
    /\ \A w \in Workers : WF_vars(ClaimCommit(w))
    /\ WF_vars(ClaimSelect(1))
    /\ WF_vars(ExecuteAndSettle(1))
    /\ WF_vars(Wake(1))

PollSpec == Init /\ [][PollNext]_vars /\ PollFair


\* ---- StopSpec: Worker.run with its signal handler -------------------------
\* run, line 159: while self.running
StopCheck(w) ==
    /\ wpc[w] = "loop"
    /\ wpc' = [wpc EXCEPT ![w] = IF running[w] THEN "poll" ELSE "exited"]
    /\ UNCHANGED <<tasks, next_id, wtask, cpc, carg, last, chatvars, svcvars>>

\* run, lines 161-162 with process_one, lines 127-142: the task is settled,
\* process_one returns True, the loop comes back to its condition
StopSettle(w) ==
    /\ wpc[w] = "exec"
    /\ Val(wtask[w]) \notin LockedRows
    /\ \E o \in Outcomes : tasks' = settle(tasks, Val(wtask[w]), o)
    /\ wpc' = [wpc EXCEPT ![w] = "loop"]
    /\ wtask' = [wtask EXCEPT ![w] = NULL]
    /\ UNCHANGED <<next_id, cpc, carg, last, chatvars, svcvars>>

\* run, line 162: the sleep is over (a signal does not shorten it)
StopWake(w) ==
    /\ wpc[w] = "sleep"
    /\ wpc' = [wpc EXCEPT ![w] = "loop"]
    /\ UNCHANGED <<tasks, next_id, wtask, cpc, carg, last, chatvars, svcvars>>

\* run, lines 148-153: SIGINT or SIGTERM is delivered to the process; the
\* handler runs between two bytecodes of the main thread, wherever it is
handle_signal(w) ==
    /\ wpc[w] # "exited"
    /\ running[w]
    /\ running' = [running EXCEPT ![w] = FALSE]
    /\ UNCHANGED <<tasks, next_id, wpc, wtask, cpc, carg, last, chatvars, now,
                   rate_limits, recorded, identities, secrets, cons, reply,
                   environ>>

StopNext ==
    \/ \E type \in TaskTypes : CreateTask(type)
    \/ \E w \in Workers : StopCheck(w)
    \/ \E w \in Workers : ClaimSelect(w)
    \/ \E w \in Workers : ClaimCommit(w)
    \/ \E w \in Workers : StopSettle(w)
    \/ \E w \in Workers : StopWake(w)
    \/ \E w \in Workers : handle_signal(w)

StopSpec == Init /\ [][StopNext]_vars


\* ---- rate_limiter.py -----------------------------------------------------
\* the limits of the one action the callers use: limits[action]['hourly']
\* and ['daily'], lines 75-77
hourly_limit == 2
daily_limit == 3

\* date.today(), with the process in UTC
today(t) == t \div Day

\* models.py RateLimit.  hourly_timestamps holds isoformat() strings, read
\* back with fromisoformat(): the round trip keeps the microseconds, an
\* instant stands for its string.
RateLimitRow(identity_id, action_type, date) ==
    [identity_id |-> identity_id, action_type |-> action_type, date |-> date,
     hourly_timestamps |-> <<>>, daily_count |-> 0, last_request_at |-> NULL]

\* the rows of (identity, action, date), by position in the table
rate_rows(table, identity_id, action_type, date) ==
    {i \in DOMAIN table : /\ table[i].identity_id = identity_id
                          /\ table[i].action_type = action_type
                          /\ table[i].date = date}

\* _get_or_create_record, lines 35-56: the table afterwards and the position
\* of the record; .first() with no ORDER BY takes the first row stored
get_or_create_record(table, identity_id, action_type, t) ==
    LET found == rate_rows(table, identity_id, action_type, today(t)) IN
    IF found # {}
    THEN [table |-> table,
          at |-> CHOOSE i \in found : \A j \in found : i <= j]
    ELSE [table |-> Append(table,
                           RateLimitRow(identity_id, action_type, today(t))),
          at |-> Len(table) + 1]

\* _prune_hourly_timestamps, lines 58-61
prune_hourly_timestamps(timestamps, t) ==
    SelectSeq(timestamps, LAMBDA ts : ts > t - Hour)

\* int(delta.total_seconds()) of a delta that is not negative
total_seconds(delta) == delta \div Second

\* can_request, lines 63-101: (can_request, wait_seconds), and the table
\* once the session has committed
can_request(table, identity_id, action_type, t) ==
    LET got == get_or_create_record(table, identity_id, action_type, t)
        record == got.table[got.at]
        hourly_timestamps == prune_hourly_timestamps(record.hourly_timestamps, t)
        tomorrow == (today(t) + 1) * Day
    IN IF record.daily_count >= daily_limit
       THEN [table |-> got.table, ok |-> FALSE,
             wait |-> total_seconds(tomorrow - t)]
       ELSE IF Len(hourly_timestamps) >= hourly_limit
       THEN [table |-> got.table, ok |-> FALSE,
             wait |-> LET left == hourly_timestamps[1] + Hour - t IN
                      IF left > 0 THEN total_seconds(left) ELSE 0]
       ELSE [table |-> got.table, ok |-> TRUE, wait |-> 0]

\* record_request, lines 108-117, on the record as it was loaded: the
\* values the UPDATE writes
recorded_row(record, t) ==
    [record EXCEPT
        !.hourly_timestamps =
            Append(prune_hourly_timestamps(record.hourly_timestamps, t), t),
        !.daily_count = record.daily_count + 1,
        !.last_request_at = Some(t)]

\* record_request, lines 103-117, in one session with no other one open
record_request(table, identity_id, action_type, t) ==
    LET got == get_or_create_record(table, identity_id, action_type, t) IN
    [got.table EXCEPT ![got.at] = recorded_row(got.table[got.at], t)]

\* ---- RateSpec: one caller, can_request / record_request in pairs --------
\* the identity and the action of the calls
Ident == 1
Action == "search"

RateCan ==
    /\ LET r == can_request(rate_limits, Ident, Action, now) IN
       /\ rate_limits' = r.table
       /\ reply' = Reply("can_request", r.ok, Some(r.wait))
    /\ UNCHANGED <<tasks, next_id, wpc, wtask, cpc, carg, last, chatvars,
                   running, now, recorded, identities, secrets, cons,
                   environ>>

\* the caller records only a request can_request has just admitted
RateRecord ==
    /\ reply.op = "can_request"
    /\ reply.ok
    /\ rate_limits' = record_request(rate_limits, Ident, Action, now)
    /\ recorded' = Append(recorded, [identity_id |-> Ident, at |-> now])
    /\ reply' = Reply("record_request", TRUE, NULL)
    /\ UNCHANGED <<tasks, next_id, wpc, wtask, cpc, carg, last, chatvars,
                   running, now, identities, secrets, cons,
                   environ>>

\* half a second passes
Advance ==
    /\ now < Start + MaxElapsed
    /\ now' = now + 1
    /\ reply' = NoReply
    /\ UNCHANGED <<tasks, next_id, wpc, wtask, cpc, carg, last, chatvars,
                   running, rate_limits, recorded, identities, secrets, cons,
                   environ>>

RateNext ==
    \/ RateCan
    \/ RateRecord
    \/ Advance

RateSpec == Init /\ [][RateNext]_vars


\* ---- BurstSpec: concurrent callers of the rate limiter -------------------
\* Each caller runs can_request, and record_request when it was admitted.
\* A session of record_request loads the record and writes it back at its
\* commit; sessions of other callers commit in between (READ COMMITTED, no
\* row lock, no version column).
Callers == 1..NumCallers

BurstInit ==
    /\ tasks = <<>>
    /\ next_id = 1
    /\ wpc = [w \in Workers |-> "poll"]
    /\ wtask = [w \in Workers |-> NULL]
    /\ cpc = [c \in Callers |-> "idle"]
    /\ carg = [c \in Callers |-> NULL]
    /\ last = NoCall
    /\ ChatInit
    /\ SvcInit

\* can_request, lines 63-101
BurstCan(c) ==
    /\ cpc[c] = "idle"
    /\ Len(recorded) < MaxBurst
    /\ LET r == can_request(rate_limits, Ident, Action, now) IN
       /\ rate_limits' = r.table
       /\ cpc' = [cpc EXCEPT ![c] = IF r.ok THEN "admitted" ELSE "idle"]
    /\ UNCHANGED <<tasks, next_id, wpc, wtask, carg, last, chatvars,
                   running, now, recorded, identities, secrets, cons, reply,
                   environ>>

\* record_request, lines 105-106: the session loads the record
BurstLoad(c) ==
    /\ cpc[c] = "admitted"
    /\ LET got == get_or_create_record(rate_limits, Ident, Action, now) IN
       /\ rate_limits' = got.table
       /\ carg' = [carg EXCEPT ![c] =
                      Some([at |-> got.at, record |-> got.table[got.at]])]
    /\ cpc' = [cpc EXCEPT ![c] = "recording"]
    /\ UNCHANGED <<tasks, next_id, wpc, wtask, last, chatvars,
                   running, now, recorded, identities, secrets, cons, reply,
                   environ>>

\* record_request, lines 108-117 and the commit: the UPDATE writes the list
\* and the count computed from the record as it was loaded
BurstWrite(c) ==
    /\ cpc[c] = "recording"
    /\ rate_limits' = [rate_limits EXCEPT ![Val(carg[c]).at] =
                          recorded_row(Val(carg[c]).record, now)]
    /\ recorded' = Append(recorded, [identity_id |-> Ident, at |-> now])
    /\ cpc' = [cpc EXCEPT ![c] = "idle"]
    /\ carg' = [carg EXCEPT ![c] = NULL]
    /\ UNCHANGED <<tasks, next_id, wpc, wtask, last, chatvars,
                   running, now, identities, secrets, cons, reply,
                   environ>>

BurstNext ==
    \/ \E c \in Callers : BurstCan(c)
    \/ \E c \in Callers : BurstLoad(c)
    \/ \E c \in Callers : BurstWrite(c)

BurstSpec == BurstInit /\ [][BurstNext]_vars


\* ---- identities.py -------------------------------------------------------
Platforms == {"linkedin", "kaspr"}

\* models.py Identity: the columns get_available and the mark_ operations
\* read or order by (blocked_at and blocked_reason are stored by
\* mark_blocked, cleared by mark_active and read by neither)
IdentityRow(platform, status) ==
    [platform |-> platform, status |-> status, last_used_at |-> NULL]

\* ORDER BY last_used_at ASC NULLS FIRST: a sorts strictly before b
sorts_before(a, b) ==
    \/ a.last_used_at = NULL /\ b.last_used_at # NULL
    \/ /\ a.last_used_at # NULL
       /\ b.last_used_at # NULL
       /\ Val(a.last_used_at) < Val(b.last_used_at)

\* every order the query may return the rows S in: rows with equal
\* last_used_at come in any order
orderings(S) ==
    {o \in [1..Cardinality(S) -> S] :
        /\ \A i, j \in DOMAIN o : i # j => o[i] # o[j]
        /\ \A i, j \in DOMAIN o :
              i < j => ~sorts_before(identities[o[j]], identities[o[i]])}

\* variant: the query does not filter on status
active_identities_any_status(platform) ==
    orderings({i \in DOMAIN identities : identities[i].platform = platform})

\* get_available, lines 28-33: the results the query may give
active_identities(platform) ==
    orderings({i \in DOMAIN identities :
                 /\ identities[i].platform = platform
                 /\ identities[i].status = "active"})

\* get_available, lines 45-50: the loop from position k on
RECURSIVE first_admitted(_, _, _, _, _)
first_admitted(order, k, action_type, table, t) ==
    IF k > Len(order)
    THEN [table |-> table, id |-> NULL]
    ELSE LET r == can_request(table, order[k], action_type, t) IN
         IF r.ok
         THEN [table |-> r.table, id |-> Some(order[k])]
         ELSE first_admitted(order, k + 1, action_type, r.table, t)

\* get_available, lines 35-50, on the query result `order`
get_available(order, action_type, table, t) ==
    IF order = <<>>
    THEN [table |-> table, id |-> NULL]
    ELSE IF action_type = NULL
    THEN [table |-> table, id |-> Some(order[1])]
    ELSE first_admitted(order, 1, Val(action_type), table, t)

\* mark_used, lines 86-91
mark_used(table, identity_id, t) ==
    IF identity_id \in DOMAIN table
    THEN [table EXCEPT ![identity_id].last_used_at = Some(t)]
    ELSE table

\* mark_blocked, lines 93-100
mark_blocked(table, identity_id) ==
    IF identity_id \in DOMAIN table
    THEN [table EXCEPT ![identity_id].status = "blocked"]
    ELSE table

\* mark_active, lines 102-109
mark_active(table, identity_id) ==
    IF identity_id \in DOMAIN table
    THEN [table EXCEPT ![identity_id].status = "active"]
    ELSE table

\* ---- IdentSpec: the identity registry and the rate limiter, one caller ---
\* create, lines 127-150
IdentCreate(platform, status) ==
    /\ Len(identities) < MaxIdentities
    /\ identities' = Append(identities, IdentityRow(platform, status))
    /\ reply' = NoReply
    /\ UNCHANGED <<tasks, next_id, wpc, wtask, cpc, carg, last, chatvars,
                   running, now, rate_limits, recorded, secrets, cons,
                   environ>>

IdentGet(platform, action_type) ==
    /\ \E order \in active_identities(platform) :
          LET r == get_available(order, action_type, rate_limits, now) IN
          /\ rate_limits' = r.table
          /\ reply' = Reply("get_available", r.id # NULL,
                            Some([platform |-> platform,
                                  action_type |-> action_type,
                                  id |-> r.id]))
    /\ UNCHANGED <<tasks, next_id, wpc, wtask, cpc, carg, last, chatvars,
                   running, now, recorded, identities, secrets, cons,
                   environ>>

\* the caller makes the request with the identity get_available returned
\* for the action, then record_request and mark_used
IdentUse ==
    /\ reply.op = "get_available"
    /\ reply.ok
    /\ Val(reply.value).action_type # NULL
    /\ LET id == Val(Val(reply.value).id) IN
       /\ rate_limits' = record_request(rate_limits, id, Action, now)
       /\ identities' = mark_used(identities, id, now)
    /\ reply' = NoReply
    /\ UNCHANGED <<tasks, next_id, wpc, wtask, cpc, carg, last, chatvars,
                   running, now, recorded, secrets, cons,
                   environ>>

IdentBlock(id) ==
    /\ identities' = mark_blocked(identities, id)
    /\ reply' = NoReply
    /\ UNCHANGED <<tasks, next_id, wpc, wtask, cpc, carg, last, chatvars,
                   running, now, rate_limits, recorded, secrets, cons,
                   environ>>

IdentUnblock(id) ==
    /\ identities' = mark_active(identities, id)
    /\ reply' = NoReply
    /\ UNCHANGED <<tasks, next_id, wpc, wtask, cpc, carg, last, chatvars,
                   running, now, rate_limits, recorded, secrets, cons,
                   environ>>

\* a second passes
Tick ==
    /\ now < Start + MaxTicks * Second
    /\ now' = now + Second
    /\ reply' = NoReply
    /\ UNCHANGED <<tasks, next_id, wpc, wtask, cpc, carg, last, chatvars,
                   running, rate_limits, recorded, identities, secrets, cons,
                   environ>>

IdentNext ==
    \/ \E p \in Platforms, st \in {"active", "warming"} : IdentCreate(p, st)
    \/ \E p \in Platforms : IdentGet(p, Some(Action))
    \/ IdentUse
    \/ \E id \in DOMAIN identities : IdentBlock(id)
    \/ \E id \in DOMAIN identities : IdentUnblock(id)
    \/ Tick

IdentSpec == Init /\ [][IdentNext]_vars


\* ---- secrets.py ----------------------------------------------------------
Keys == {"API_KEY"}
Values == {"v1", "v2"}
Scopes == {"PLATFORM", "USER"}
UserIds == 0..MaxUserId
\* the user_id argument: None or an integer
UserArgs == {NULL} \cup {Some(u) : u \in UserIds}
\* the expires_at argument: None, an instant gone by, one to come
Expiries == {NULL, Some(Start - Second), Some(Start + Second)}

\* encrypt / decrypt, lines 32-41, under one master key: a token is not the
\* value, and decrypt gives the value back
encrypt(value) == <<"fernet", value>>
decrypt(encrypted_value) == encrypted_value[2]

\* models.py Secret (description, created_at and updated_at are written and
\* never read by get, set or delete)
SecretRow(key, scope, user_id, encrypted_value, expires_at) ==
    [key |-> key, scope |-> scope, user_id |-> user_id,
     encrypted_value |-> encrypted_value, expires_at |-> expires_at]

\* .first() of a query with no ORDER BY: the first row stored, or None
first(table, matching) ==
    IF matching = {} THEN NULL
    ELSE Some(CHOOSE i \in matching : \A j \in matching : i <= j)

\* the value of `if user_id:` (line 50): None and 0 are false
truthy(user_id) == user_id # NULL /\ Val(user_id) # 0

\* lines 57-59 and 67-69: what get returns for the row it found
live_value(secret, t) ==
    IF secret.expires_at # NULL /\ Val(secret.expires_at) < t
    THEN NULL
    ELSE Some(decrypt(secret.encrypted_value))

\* get, lines 43-71
secrets_get(table, key, user_id, t) ==
    LET user_row ==
            IF truthy(user_id)
            THEN first(table, {i \in DOMAIN table :
                                  /\ table[i].key = key
                                  /\ table[i].scope = "USER"
                                  /\ table[i].user_id = user_id})
            ELSE NULL
        platform_row ==
            first(table, {i \in DOMAIN table :
                             /\ table[i].key = key
                             /\ table[i].scope = "PLATFORM"})
    IN IF user_row # NULL THEN live_value(table[Val(user_row)], t)
       ELSE IF platform_row # NULL
       THEN live_value(table[Val(platform_row)], t)
       ELSE NULL

\* the query of set and delete, lines 86-95 and 120-129
secrets_query(table, key, scope, user_id) ==
    first(table, {i \in DOMAIN table :
                     /\ table[i].key = key
                     /\ table[i].scope = scope
                     /\ IF scope = "USER"
                        THEN table[i].user_id = user_id
                        ELSE table[i].user_id = NULL})

\* the row set stores, lines 98-110
secrets_row(key, value, scope, user_id, expires_at) ==
    SecretRow(key, scope, IF scope = "USER" THEN user_id ELSE NULL,
              encrypt(value), expires_at)

\* set, lines 73-115, in one session with no other one open
secrets_set(table, key, value, scope, user_id, expires_at) ==
    LET secret == secrets_query(table, key, scope, user_id) IN
    IF secret # NULL
    THEN [table EXCEPT ![Val(secret)] =
              secrets_row(key, value, scope, user_id, expires_at)]
    ELSE Append(table, secrets_row(key, value, scope, user_id, expires_at))

\* a table without its row i
without(table, i) ==
    [j \in 1..(Len(table) - 1) |-> IF j < i THEN table[j] ELSE table[j + 1]]

\* delete, lines 117-134
secrets_delete(table, key, scope, user_id) ==
    LET secret == secrets_query(table, key, scope, user_id) IN
    IF secret # NULL THEN without(table, Val(secret)) ELSE table

\* ---- VaultSpec: set, get and delete, one call at a time ------------------
VaultSet(key, value, scope, user_id, expires_at) ==
    /\ secrets' = secrets_set(secrets, key, value, scope, user_id, expires_at)
    /\ reply' = NoReply
    /\ UNCHANGED <<tasks, next_id, wpc, wtask, cpc, carg, last, chatvars,
                   running, now, rate_limits, recorded, identities, cons,
                   environ>>

VaultGet(key, user_id) ==
    /\ reply' = Reply("get", TRUE,
                      Some([key |-> key, user_id |-> user_id,
                            value |-> secrets_get(secrets, key, user_id, now)]))
    /\ UNCHANGED <<tasks, next_id, wpc, wtask, cpc, carg, last, chatvars,
                   running, now, rate_limits, recorded, identities, secrets,
                   cons,
                   environ>>

VaultDelete(key, scope, user_id) ==
    /\ secrets' = secrets_delete(secrets, key, scope, user_id)
    /\ reply' = Reply("delete", secrets_query(secrets, key, scope, user_id) # NULL,
                      NULL)
    /\ UNCHANGED <<tasks, next_id, wpc, wtask, cpc, carg, last, chatvars,
                   running, now, rate_limits, recorded, identities, cons,
                   environ>>

VaultNext ==
    \/ \E k \in Keys, v \in Values, sc \in Scopes, u \in UserArgs,
          e \in Expiries : VaultSet(k, v, sc, u, e)
    \/ \E k \in Keys, u \in UserArgs : VaultGet(k, u)
    \/ \E k \in Keys, sc \in Scopes, u \in UserArgs : VaultDelete(k, sc, u)

VaultSpec == Init /\ [][VaultNext]_vars


\* ---- UpsertSpec: set called by several processes -------------------------
\* The session of set runs its query, then adds or changes the row and
\* commits; the sessions of other processes commit in between (READ
\* COMMITTED; models.py Secret declares no unique constraint).
UpsertQuery(c, key, value, scope, user_id) ==
    /\ cpc[c] = "idle"
    /\ cpc' = [cpc EXCEPT ![c] = "setting"]
    /\ carg' = [carg EXCEPT ![c] =
                   Some([key |-> key, value |-> value, scope |-> scope,
                         user_id |-> user_id,
                         secret |-> secrets_query(secrets, key, scope,
                                                  user_id)])]
    /\ UNCHANGED <<tasks, next_id, wpc, wtask, last, chatvars, svcvars>>

\* lines 97-113
UpsertCommit(c) ==
    /\ cpc[c] = "setting"
    /\ LET a == Val(carg[c])
           row == secrets_row(a.key, a.value, a.scope, a.user_id, NULL)
       IN secrets' = IF a.secret # NULL
                     THEN [secrets EXCEPT ![Val(a.secret)] = row]
                     ELSE Append(secrets, row)
    /\ cpc' = [cpc EXCEPT ![c] = "idle"]
    /\ carg' = [carg EXCEPT ![c] = NULL]
    /\ UNCHANGED <<tasks, next_id, wpc, wtask, last, chatvars,
                   running, now, rate_limits, recorded, identities, cons,
                   reply,
                   environ>>

UpsertNext ==
    \/ \E c \in Clients, k \in Keys, v \in Values :
          UpsertQuery(c, k, v, "PLATFORM", NULL)
    \/ \E c \in Clients, k \in Keys, v \in Values :
          UpsertQuery(c, k, v, "USER", Some(MaxUserId))
    \/ \E c \in Clients : UpsertCommit(c)

UpsertSpec == Init /\ [][UpsertNext]_vars


\* ---- serial specifications: the same operations, each run to completion --
\* One caller at a time uses the TaskManager API and the submit handler; no
\* two sessions overlap.  last records the call and what it returned, for
\* the operations named in rec (the other calls leave NoCall).
Call(op, arg, ret, task) == [op |-> op, arg |-> arg, ret |-> ret, task |-> task]
Log(rec, call) == IF call.op \in rec THEN call ELSE NoCall

SerCreate(type, rec) ==
    /\ next_id <= MaxTasks
    /\ tasks' = create(tasks, next_id, type)
    /\ next_id' = next_id + 1
    /\ last' = Log(rec, Call("create", NULL, "id", Some(next_id)))
    /\ UNCHANGED <<wpc, wtask, cpc, carg, chatvars, svcvars>>

\* server.py send_message, lines 148-165
SerSendMessage(chat, rec) ==
    /\ IF chat \notin Chats
       THEN /\ last' = Log(rec, Call("send_message", Some(chat), "404", NULL))
            /\ UNCHANGED <<tasks, next_id>>
       ELSE LET active == get_active_task_for_chat(tasks, chat) IN
            IF send_message_conflict(active)
            THEN /\ \E a \in active :
                       last' = Log(rec, Call("send_message", Some(chat),
                                             "409", Some(a)))
                 /\ UNCHANGED <<tasks, next_id>>
            ELSE /\ next_id <= MaxTasks
                 /\ tasks' = create_for_chat(tasks, next_id, "agent", chat, "ping")
                 /\ next_id' = next_id + 1
                 /\ last' = Log(rec, Call("send_message", Some(chat),
                                          "202", Some(next_id)))
    /\ UNCHANGED <<wpc, wtask, cpc, carg, chatvars, svcvars>>

\* task_manager.py claim, lines 63-86, with no other session open
SerClaim(w, rec) ==
    /\ LET row == claim_select(tasks, {}) IN
       IF row = NULL
       THEN /\ last' = Log(rec, Call("claim", Some(w), "None", NULL))
            /\ UNCHANGED tasks
       ELSE /\ tasks' = claim_update(tasks, Val(row), w)
            /\ last' = Log(rec, Call("claim", Some(w), "task", row))
    /\ UNCHANGED <<next_id, wpc, wtask, cpc, carg, chatvars, svcvars>>

\* complete and fail are called by process_one on a task it has claimed,
\* and possibly again: never on a row that is pending
SerComplete(id, rec) ==
    /\ id \in DOMAIN tasks => tasks[id].status # "pending"
    /\ tasks' = complete(tasks, id, "result")
    /\ last' = Log(rec, Call("complete", Some(id), "None", NULL))
    /\ UNCHANGED <<next_id, wpc, wtask, cpc, carg, chatvars, svcvars>>

SerFail(id, error, rec) ==
    /\ id \in DOMAIN tasks => tasks[id].status # "pending"
    /\ tasks' = fail(tasks, id, error)
    /\ last' = Log(rec, Call("fail", Some(id), "None", NULL))
    /\ UNCHANGED <<next_id, wpc, wtask, cpc, carg, chatvars, svcvars>>

\* task_manager.py retry, lines 176-185
SerRetry(id, rec) ==
    /\ IF retry_check(tasks, id)
       THEN /\ tasks' = retry_update(tasks, id)
            /\ last' = Log(rec, Call("retry", Some(id), "True", NULL))
       ELSE /\ UNCHANGED tasks
            /\ last' = Log(rec, Call("retry", Some(id), "False", NULL))
    /\ UNCHANGED <<next_id, wpc, wtask, cpc, carg, chatvars, svcvars>>

\* task_manager.py cancel, lines 196-201
SerCancel(id, rec) ==
    /\ IF cancel_check(tasks, id)
       THEN /\ tasks' = cancel_delete(tasks, id)
            /\ last' = Log(rec, Call("cancel", Some(id), "True", NULL))
       ELSE /\ UNCHANGED tasks
            /\ last' = Log(rec, Call("cancel", Some(id), "False", NULL))
    /\ UNCHANGED <<next_id, wpc, wtask, cpc, carg, chatvars, svcvars>>

SerialNext(rec, errors) ==
    \/ \E type \in TaskTypes : SerCreate(type, rec)
    \/ \E chat \in 1..(NumChats + 1) : SerSendMessage(chat, rec)
    \/ \E w \in Workers : SerClaim(w, rec)
    \/ \E id \in 1..MaxTasks : SerComplete(id, rec)
    \/ \E id \in 1..MaxTasks, e \in errors : SerFail(id, e, rec)
    \/ \E id \in 1..MaxTasks : SerRetry(id, rec)
    \/ \E id \in 1..MaxTasks : SerCancel(id, rec)

\* the error texts passed to fail: all of them where the text written is
\* observed, one where only the status matters
ErrorTexts == {ErrorText(o) : o \in Outcomes \ {"success"}}

SerialClaimSpec == Init /\ [][SerialNext({"claim"}, {"error"})]_vars
SerialSettleSpec == Init /\ [][SerialNext({"complete", "fail"}, ErrorTexts)]_vars
SerialRetrySpec == Init /\ [][SerialNext({"retry"}, {"error"})]_vars
SerialSubmitSpec == Init /\ [][SerialNext({"send_message"}, {"error"})]_vars

\* ---- ClaimSpec: N workers call claim once each, concurrently -------------
\* The table holds MaxPending rows inserted in order; the rows of P are
\* pending, the others were claimed and completed earlier.
SeedRow(i, P) ==
    IF i \in P THEN TaskRow("script", NULL, NULL, i)
    ELSE [TaskRow("script", NULL, NULL, i) EXCEPT !.status = "completed",
                                            !.claimed_by = Some(1),
                                            !.started_at = Some(utcnow),
                                            !.completed_at = Some(utcnow),
                                            !.result = Some("result")]

ClaimInit ==
    /\ \E P \in SUBSET (1..MaxPending) :
          tasks = [i \in 1..MaxPending |-> SeedRow(i, P)]
    /\ next_id = MaxPending + 1
    /\ wpc = [w \in Claimers |-> "poll"]
    /\ wtask = [w \in Claimers |-> NULL]
    /\ cpc = [c \in Clients |-> "idle"]
    /\ carg = [c \in Clients |-> NULL]
    /\ last = NoCall
    /\ ChatInit
    /\ SvcInit

ClaimNext ==
    \/ \E w \in Claimers : ClaimSelect(w)
    \/ \E w \in Claimers : ClaimCommit(w)

ClaimSpec == ClaimInit /\ [][ClaimNext]_vars


\* ---- TurnSpec: one worker, process_one run to completion ------------------
\* Tasks are created from the CLI and by message submits, one worker calls
\* process_one, failed tasks are retried; no two calls overlap and the store
\* raises no error.
SettleCall(op, id, result, error) ==
    [op |-> op, id |-> id, result |-> result, error |-> error]

\* variant: the task is completed whatever the executor returned
settle_calls_always_complete(id, res) ==
    <<SettleCall("complete", id, Some(res), "")>>

\* process_one, lines 127-140: the TaskManager calls that settle the task
settle_calls(id, res) ==
    IF res.raised THEN <<SettleCall("fail", id, NULL, res.error)>>
    ELSE IF res.success THEN <<SettleCall("complete", id, Some(res), "")>>
    ELSE <<SettleCall("fail", id, NULL, res.error)>>

RECURSIVE apply_calls(_, _)
apply_calls(store, cs) ==
    IF cs = <<>> THEN store
    ELSE apply_calls(IF Head(cs).op = "complete"
                     THEN complete(store, Head(cs).id, Val(Head(cs).result))
                     ELSE fail(store, Head(cs).id, Head(cs).error),
                     Tail(cs))

\* a whole run's add_event calls on the in-memory tail
RECURSIVE tail_all(_, _, _)
tail_all(tails, id, evs) ==
    IF evs = <<>> THEN tails
    ELSE tail_all(tail_append(tails, id, Head(evs)), id, Tail(evs))

\* what `task create` is given: the kind (one of them unknown to
\* execute_task) and the prompt
TaskKinds ==
    {<<"script", NULL>>, <<"agent", Some("ping")>>, <<"agent", NULL>>,
     <<"batch", NULL>>}
\* the content of a submitted message; pydantic accepts the empty string
Prompts == {"ping", ""}

\* what the executor does on one call of process_one: the script invoker's
\* outcome for a script task, the agent's run for an agent task
Executions ==
    [o : Outcomes, run : {[sdk |-> TRUE, fault |-> "none", items |-> <<>>]}]
    \cup [o : {"success"}, run : Runs]

TurnCreate(kind) ==
    /\ next_id <= MaxTasks
    /\ tasks' = [create(tasks, next_id, kind[1]) EXCEPT
                    ![next_id].prompt = kind[2]]
    /\ next_id' = next_id + 1
    /\ last' = NoCall
    /\ calls' = <<>>
    /\ UNCHANGED <<wpc, wtask, cpc, carg, messages, events, event_signals,
                   task_events, orch, sub, faults, emitted, svcvars>>

\* server.py send_message, lines 148-165, on an existing chat
TurnSubmit(chat, prompt) ==
    /\ next_id <= MaxTasks
    /\ ~send_message_conflict(get_active_task_for_chat(tasks, chat))
    /\ tasks' = create_for_chat(tasks, next_id, "agent", chat, prompt)
    /\ next_id' = next_id + 1
    /\ last' = NoCall
    /\ calls' = <<>>
    /\ UNCHANGED <<wpc, wtask, cpc, carg, messages, events, event_signals,
                   task_events, orch, sub, faults, emitted, svcvars>>

\* worker.py process_one, lines 115-142
TurnProcessOne(w, x0) ==
    /\ Len(task_events) < MaxEvents
    /\ LET row == claim_select(tasks, {}) IN
       IF row = NULL
       THEN /\ last' = Call("process_one", Some(w), "False", NULL)
            /\ calls' = <<>>
            /\ UNCHANGED <<tasks, messages, events, event_signals,
                           task_events, emitted>>
       ELSE LET id == Val(row)
                claimed == claim_update(tasks, id, w)
                x == execute_task(claimed[id], x0.o, x0.run, messages)
                cs == settle_calls(id, x.result)
                tails == tail_all(events, id, x.emitted)
            IN /\ tasks' = apply_calls(claimed, cs)
               /\ messages' = x.messages
               /\ task_events' = save_all(task_events, id, x.emitted)
               /\ emitted' = tail_all(emitted, id, x.emitted)
               /\ events' = IF x.cleanup THEN pop(tails, id) ELSE tails
               /\ event_signals' = IF x.cleanup THEN pop(event_signals, id)
                                   ELSE event_signals
               /\ calls' = cs
               /\ last' = Call("process_one", Some(w), "True", row)
    /\ UNCHANGED <<next_id, wpc, wtask, cpc, carg, orch, sub, faults, svcvars>>

TurnRetry(id) ==
    /\ SerRetry(id, {})
    /\ calls' = calls

\* the tasks are the turns of the chats, each submitted with a prompt
TurnNext ==
    \/ \E chat \in Chats : TurnSubmit(chat, "ping")
    \/ \E x0 \in Executions : TurnProcessOne(1, x0)
    \/ \E id \in 1..MaxTasks : TurnRetry(id)

TurnSpec == Init /\ [][TurnNext]_vars

\* the same, with any content the submit handler accepts
AnyTurnNext ==
    \/ \E chat \in Chats, prompt \in Prompts : TurnSubmit(chat, prompt)
    \/ \E x0 \in Executions : TurnProcessOne(1, x0)
    \/ \E id \in 1..MaxTasks : TurnRetry(id)

AnyTurnSpec == Init /\ [][AnyTurnNext]_vars

\* the tasks are created from the CLI
WorkNext ==
    \/ \E kind \in TaskKinds : TurnCreate(kind)
    \/ \E x0 \in Executions : TurnProcessOne(1, x0)
    \/ \E id \in 1..MaxTasks : TurnRetry(id)

WorkSpec == Init /\ [][WorkNext]_vars


\* ---- FaultSpec: process_one with a store that may raise -------------------
\* errs[n]: the n-th settle call of this process_one raises (the session
\* rolls back, the row is unchanged).  A call that raises inside the try
\* (lines 131, 135) sends control to the except, whose fail (line 139) is
\* the last attempt: an exception raised there leaves process_one.
StoreErrors == [{1, 2} -> BOOLEAN]

process_one_settle(id, res, errs) ==
    IF res.raised
    THEN IF errs[1]
         THEN [calls |-> <<>>, hit |-> 1, escaped |-> TRUE]
         ELSE [calls |-> settle_calls(id, res), hit |-> 0, escaped |-> FALSE]
    ELSE IF ~errs[1]
    THEN [calls |-> settle_calls(id, res), hit |-> 0, escaped |-> FALSE]
    ELSE IF ~errs[2]
    THEN [calls |-> <<SettleCall("fail", id, NULL, "store error")>>,
          hit |-> 1, escaped |-> FALSE]
    ELSE [calls |-> <<>>, hit |-> 2, escaped |-> TRUE]

\* _execute_chat_agent, lines 95-113, when the first add_message raises:
\* nothing is saved, cleanup is not reached, the exception reaches
\* process_one's except
persist_raises(x, table) ==
    [result |-> Result(FALSE, <<>>, "store error", TRUE),
     emitted |-> x.emitted, messages |-> table, cleanup |-> FALSE]

\* worker.py process_one, lines 115-142, and run, lines 160-167: an
\* exception that leaves process_one is printed, the loop sleeps and goes on
FaultProcessOne(x0, perr, errs) ==
    /\ Len(task_events) < MaxEvents
    /\ claim_select(tasks, {}) # NULL
    /\ LET row == claim_select(tasks, {})
           id == Val(row)
           claimed == claim_update(tasks, id, 1)
           x1 == execute_task(claimed[id], x0.o, x0.run, messages)
           saves == x1.cleanup /\ x1.result.success
           x == IF perr /\ saves THEN persist_raises(x1, messages) ELSE x1
           st == process_one_settle(id, x.result, errs)
           tails == tail_all(events, id, x.emitted)
           n == st.hit + (IF perr /\ saves THEN 1 ELSE 0)
       IN /\ perr => saves
          /\ faults + n <= MaxStoreErrors
          /\ faults' = faults + n
          /\ tasks' = apply_calls(claimed, st.calls)
          /\ messages' = x.messages
          /\ task_events' = save_all(task_events, id, x.emitted)
          /\ emitted' = tail_all(emitted, id, x.emitted)
          /\ events' = IF x.cleanup THEN pop(tails, id) ELSE tails
          /\ event_signals' = IF x.cleanup THEN pop(event_signals, id)
                              ELSE event_signals
          /\ calls' = st.calls
          /\ last' = Call("process_one", Some(1),
                          IF st.escaped THEN "raised" ELSE "True", row)
    /\ UNCHANGED <<next_id, wpc, wtask, cpc, carg, orch, sub, svcvars>>

FaultWork ==
    \E x0 \in Executions, perr \in BOOLEAN, errs \in StoreErrors :
        FaultProcessOne(x0, perr, errs)

FaultNext ==
    \/ \E kind \in TaskKinds : TurnCreate(kind)
    \/ \E chat \in Chats : TurnSubmit(chat, "ping")
    \/ FaultWork
    \/ \E id \in 1..MaxTasks : TurnRetry(id)

\* the worker keeps running: it calls process_one again and again
FaultSpec == Init /\ [][FaultNext]_vars /\ WF_vars(FaultWork)


\* ---- PersistSpec: a store that may raise in either add_message ------------
\* _execute_chat_agent, lines 95-108, when the second add_message raises:
\* the user message is committed by the first call's own session, the
\* assistant message is not saved, cleanup is not reached
persist_raises_after_user(x, task, table) ==
    [result |-> Result(FALSE, <<>>, "store error", TRUE),
     emitted |-> x.emitted,
     messages |-> add_message(table, Val(task.chat_id), "user",
                              Text(Val(task.prompt)),
                              max_sequence(table, Val(task.chat_id))),
     cleanup |-> FALSE]

\* process_one as in FaultSpec; at: which add_message of the turn raises
\* (0: neither)
PersistProcessOne(x0, at, errs) ==
    /\ Len(task_events) < MaxEvents
    /\ claim_select(tasks, {}) # NULL
    /\ LET row == claim_select(tasks, {})
           id == Val(row)
           claimed == claim_update(tasks, id, 1)
           x1 == execute_task(claimed[id], x0.o, x0.run, messages)
           saves == x1.cleanup /\ x1.result.success
           x == IF at = 1 THEN persist_raises(x1, messages)
                ELSE IF at = 2
                THEN persist_raises_after_user(x1, claimed[id], messages)
                ELSE x1
           st == process_one_settle(id, x.result, errs)
           tails == tail_all(events, id, x.emitted)
           n == st.hit + (IF at # 0 THEN 1 ELSE 0)
       IN /\ at # 0 => saves
          /\ faults + n <= MaxStoreErrors
          /\ faults' = faults + n
          /\ tasks' = apply_calls(claimed, st.calls)
          /\ messages' = x.messages
          /\ task_events' = save_all(task_events, id, x.emitted)
          /\ emitted' = tail_all(emitted, id, x.emitted)
          /\ events' = IF x.cleanup THEN pop(tails, id) ELSE tails
          /\ event_signals' = IF x.cleanup THEN pop(event_signals, id)
                              ELSE event_signals
          /\ calls' = st.calls
          /\ last' = Call("process_one", Some(1),
                          IF st.escaped THEN "raised" ELSE "True", row)
    /\ UNCHANGED <<next_id, wpc, wtask, cpc, carg, orch, sub, svcvars>>

PersistNext ==
    \/ \E chat \in Chats : TurnSubmit(chat, "ping")
    \/ \E x0 \in Executions, at \in 0..2, errs \in StoreErrors :
          PersistProcessOne(x0, at, errs)
    \/ \E id \in 1..MaxTasks : TurnRetry(id)

PersistSpec == Init /\ [][PersistNext]_vars

\* ---- AgentSpec: execute_agent and the process environment ---------------
\* The worker runs one agent at a time (process_one is called from one
\* loop), so the calls of execute_agent on os.environ follow one another.
\* The names the vault's secrets are exported under, and the values a
\* variable holds: a secret's value or what the process was started with.
SecretNames == {"API_KEY", "DB_TOKEN"}
EnvValues == Values \cup {"inherited"}

\* every dict from some of the names to the values
Dicts(names, values) == UNION {[S -> values] : S \in SUBSET names}

\* os.environ.get(key): None when the variable is absent
environ_get(env, key) == IF key \in DOMAIN env THEN Some(env[key]) ELSE NULL

\* os.environ[key] = value
environ_set(env, key, value) ==
    [k \in DOMAIN env \cup {key} |-> IF k = key THEN value ELSE env[k]]

\* lines 52-56: the prior value of each key is captured, then the key is set
inject_secrets(env, agent_secrets) ==
    [original_env |-> [key \in DOMAIN agent_secrets |-> environ_get(env, key)],
     env |-> [k \in DOMAIN env \cup DOMAIN agent_secrets |->
                 IF k \in DOMAIN agent_secrets THEN agent_secrets[k]
                 ELSE env[k]]]

\* variant: the finally sets back the captured values and leaves the keys
\* that were absent as the run set them
restore_env_no_pop(env, original_env) ==
    [k \in DOMAIN env |->
        IF k \in DOMAIN original_env /\ original_env[k] # NULL
        THEN Val(original_env[k]) ELSE env[k]]

\* lines 161-168, the finally: a key captured as None is popped, any other
\* is set back to the captured value
restore_env(env, original_env) ==
    LET popped == {k \in DOMAIN original_env : original_env[k] = NULL} IN
    [k \in (DOMAIN env \cup DOMAIN original_env) \ popped |->
        IF k \in DOMAIN original_env THEN Val(original_env[k]) ELSE env[k]]

\* execute_agent, lines 38-168, on os.environ: the two early returns leave
\* it alone; past them line 49 sets the SDK's flag, the secrets are
\* exported, and the finally runs whether the try returned or raised
execute_agent_environ(env, prompt, agent_secrets, run) ==
    IF ~run.sdk \/ prompt = NULL \/ prompt = Some("")
    THEN env
    ELSE LET flagged == environ_set(env, "CLAUDE_AGENT_SDK_SKIP_VERSION_CHECK",
                                   "1")
             exported == inject_secrets(flagged, agent_secrets)
         IN restore_env(exported.env, exported.original_env)

\* the process starts with any of the names set or not
AgentInit ==
    /\ tasks = <<>>
    /\ next_id = 1
    /\ wpc = [w \in Workers |-> "poll"]
    /\ wtask = [w \in Workers |-> NULL]
    /\ cpc = [c \in Clients |-> "idle"]
    /\ carg = [c \in Clients |-> NULL]
    /\ last = NoCall
    /\ ChatInit
    /\ running = [w \in Workers |-> TRUE]
    /\ now = Start
    /\ rate_limits = <<>>
    /\ recorded = <<>>
    /\ identities = <<>>
    /\ secrets = <<>>
    /\ cons = [c \in Consumers |-> NoWait]
    /\ reply = NoReply
    /\ environ \in Dicts(SecretNames, {"inherited"})

\* run_agent(task, secrets), lines 171-173: one call of execute_agent
AgentRun(prompt, agent_secrets, run) ==
    /\ environ' = execute_agent_environ(environ, Some(prompt), agent_secrets,
                                        run)
    /\ reply' = Reply("run_agent",
                      execute_agent(Some(prompt), run, FALSE).result.success,
                      [secrets |-> agent_secrets, run |-> run])
    /\ UNCHANGED <<tasks, next_id, wpc, wtask, cpc, carg, last, chatvars,
                   running, now, rate_limits, recorded, identities, secrets,
                   cons>>

AgentNext ==
    \E prompt \in Prompts, agent_secrets \in Dicts(SecretNames, Values),
       run \in Runs :
        AgentRun(prompt, agent_secrets, run)

AgentSpec == AgentInit /\ [][AgentNext]_vars

\* ---- StreamSpec: the HTTP process, its poll loop and one SSE stream --------
\* async_poll_loop runs process_one in a thread of the HTTP process
\* (asyncio.to_thread); stream_events runs on the event loop.  The two share
\* event_store.  The worker is worker 1; the turn it executes is taken one
\* add_event at a time.
\* variant: the task's status is never looked at
task_finished_never(store, id) == FALSE

\* stream_events, lines 196-197
task_finished(store, id) ==
    id \in DOMAIN store /\ store[id].status \in {"completed", "failed"}

\* get_events, line 56: reading a defaultdict creates the key
get_events(tails, id) ==
    [k \in DOMAIN tails \cup {id} |->
        IF k \in DOMAIN tails THEN tails[k] ELSE <<>>]

\* stream_events, lines 183-188: the events yielded from one snapshot, up
\* to and including the first complete or error
RECURSIVE yielded(_)
yielded(evs) ==
    IF evs = <<>> THEN <<>>
    ELSE IF Head(evs).type \in {"complete", "error"} THEN <<Head(evs)>>
    ELSE <<Head(evs)>> \o yielded(Tail(evs))

ends_stream(evs) ==
    evs # <<>> /\ evs[Len(evs)].type \in {"complete", "error"}

\* process_one claims the oldest pending task and enters execute_agent:
\* the events the run will emit and the dict it will return
ProdClaim(run) ==
    /\ wpc[1] = "poll"
    /\ Len(task_events) < MaxEvents
    /\ claim_select(tasks, {}) # NULL
    /\ LET id == Val(claim_select(tasks, {}))
           r == execute_agent(tasks[id].prompt, run, TRUE)
       IN /\ tasks' = claim_update(tasks, id, 1)
          /\ wtask' = [wtask EXCEPT ![1] = Some(id)]
          /\ orch' = [queue |-> r.emitted, result |-> Some(r.result)]
    /\ wpc' = [wpc EXCEPT ![1] = "run"]
    /\ UNCHANGED <<next_id, cpc, carg, last, messages, events, event_signals,
                   task_events, sub, calls, faults, emitted, svcvars>>

\* events.py add_event, lines 19-33; saved: the durable write went through
\* (a failure is printed, not raised)
ProdEmit(saved) ==
    /\ wpc[1] = "run"
    /\ orch.queue # <<>>
    /\ LET id == Val(wtask[1])
           e == Head(orch.queue)
       IN /\ events' = tail_append(events, id, e)
          /\ emitted' = tail_append(emitted, id, e)
          /\ IF saved
             THEN /\ task_events' = save_to_db(task_events, id, e)
                  /\ UNCHANGED faults
             ELSE /\ faults < MaxFaults
                  /\ faults' = faults + 1
                  /\ UNCHANGED task_events
          /\ event_signals' = signal_set(event_signals, id)
    /\ orch' = [orch EXCEPT !.queue = Tail(@)]
    /\ UNCHANGED <<tasks, next_id, wpc, wtask, cpc, carg, last, messages, sub,
                   calls, svcvars>>

\* _execute_chat_agent, lines 95-111: the two messages of a successful
\* turn, then event_store.cleanup.  A waiter keeps the Event object it
\* waits on when the dict entry is dropped: its position records whether
\* that object was set.
ProdCleanup ==
    /\ wpc[1] = "run"
    /\ orch.queue = <<>>
    /\ LET id == Val(wtask[1])
           chat == Val(tasks[id].chat_id)
           res == Val(orch.result)
           m1 == add_message(messages, chat, "user",
                             Text(Val(tasks[id].prompt)),
                             max_sequence(messages, chat))
           m2 == add_message(m1, chat, "assistant", res.output,
                             max_sequence(m1, chat))
       IN /\ messages' = IF res.success THEN m2 ELSE messages
          /\ events' = pop(events, id)
          /\ event_signals' = pop(event_signals, id)
          /\ sub' = IF sub.pc = "waiting" /\ sub.task = Some(id)
                    THEN [sub EXCEPT !.pc = IF event_signals[id]
                                            THEN "orphan_set"
                                            ELSE "orphan_unset"]
                    ELSE sub
    /\ wpc' = [wpc EXCEPT ![1] = "settle"]
    /\ UNCHANGED <<tasks, next_id, wtask, cpc, carg, last, task_events, orch,
                   calls, faults, emitted, svcvars>>

\* process_one, lines 130-140
ProdSettle ==
    /\ wpc[1] = "settle"
    /\ LET cs == settle_calls(Val(wtask[1]), Val(orch.result)) IN
       /\ tasks' = apply_calls(tasks, cs)
       /\ calls' = cs
    /\ wpc' = [wpc EXCEPT ![1] = "poll"]
    /\ wtask' = [wtask EXCEPT ![1] = NULL]
    /\ orch' = NoTurn
    /\ UNCHANGED <<next_id, cpc, carg, last, messages, events, event_signals,
                   task_events, sub, faults, emitted, svcvars>>

\* stream_events, lines 172-178
SubAttach(chat) ==
    /\ sub.pc = "none"
    /\ LET active == get_active_task_for_chat(tasks, chat) IN
       IF active = {}
       THEN sub' = [NoStream EXCEPT !.pc = "closed",
                                    !.got = <<Event("no_task", 0, 0, "")>>]
       ELSE \E id \in active :
               sub' = [pc |-> "snapshot", task |-> Some(id),
                       event_index |-> 0, got |-> <<>>,
                       early |-> id \notin DOMAIN emitted]
    /\ UNCHANGED <<tasks, next_id, wpc, wtask, cpc, carg, last, messages,
                   events, event_signals, task_events, orch, calls, faults,
                   emitted, svcvars>>

\* stream_events, lines 181-188
SubSnapshot ==
    /\ sub.pc = "snapshot"
    /\ LET id == Val(sub.task)
           tails == get_events(events, id)
           new == yielded(SubSeq(tails[id], sub.event_index + 1,
                                 Len(tails[id])))
       IN /\ events' = tails
          /\ sub' = [sub EXCEPT !.got = @ \o new,
                                !.event_index = @ + Len(new),
                                !.pc = IF ends_stream(new) THEN "closed"
                                       ELSE "wait"]
    /\ UNCHANGED <<tasks, next_id, wpc, wtask, cpc, carg, last, messages,
                   event_signals, task_events, orch, calls, faults, emitted,
                   svcvars>>

\* wait_for_event, lines 60-64: create the Event if there is none, wait
SubWait ==
    /\ sub.pc = "wait"
    /\ LET id == Val(sub.task) IN
       event_signals' = [k \in DOMAIN event_signals \cup {id} |->
                            IF k \in DOMAIN event_signals
                            THEN event_signals[k] ELSE FALSE]
    /\ sub' = [sub EXCEPT !.pc = "waiting"]
    /\ UNCHANGED <<tasks, next_id, wpc, wtask, cpc, carg, last, messages,
                   events, task_events, orch, calls, faults, emitted, svcvars>>

\* wait_for_event, lines 64-66: the Event was set; clear it, return True
SubWake ==
    /\ sub.pc = "waiting"
    /\ event_signals[Val(sub.task)]
    /\ event_signals' = [event_signals EXCEPT ![Val(sub.task)] = FALSE]
    /\ sub' = [sub EXCEPT !.pc = "snapshot"]
    /\ UNCHANGED <<tasks, next_id, wpc, wtask, cpc, carg, last, messages,
                   events, task_events, orch, calls, faults, emitted, svcvars>>

\* wait_for_event, line 65, after cleanup dropped the entry:
\* self.event_signals[task_id] raises KeyError, the generator dies
SubKeyError ==
    /\ sub.pc = "orphan_set"
    /\ sub' = [sub EXCEPT !.pc = "closed"]
    /\ UNCHANGED <<tasks, next_id, wpc, wtask, cpc, carg, last, messages,
                   events, event_signals, task_events, orch, calls, faults,
                   emitted, svcvars>>

\* wait_for_event, lines 67-68, and stream_events, lines 191-199: timeout,
\* keepalive, then the task's status decides
SubTimeout ==
    /\ \/ sub.pc = "waiting" /\ ~event_signals[Val(sub.task)]
       \/ sub.pc = "orphan_unset"
    /\ sub' = IF task_finished(tasks, Val(sub.task))
              THEN [sub EXCEPT !.got = Append(@, Event("complete", 0, 0, "")),
                               !.pc = "closed"]
              ELSE [sub EXCEPT !.pc = "snapshot"]
    /\ UNCHANGED <<tasks, next_id, wpc, wtask, cpc, carg, last, messages,
                   events, event_signals, task_events, orch, calls, faults,
                   emitted, svcvars>>

\* the runs that reach the stream
StreamRuns == {run \in Runs : run.sdk /\ run.fault # "setup"}

\* the generator, once the stream is open
SubRun ==
    \/ SubSnapshot
    \/ SubWait
    \/ SubWake
    \/ SubKeyError
    \/ SubTimeout

SubNext ==
    \/ \E chat \in Chats : SubAttach(chat)
    \/ SubRun

StreamNext ==
    \/ \E chat \in Chats : TurnSubmit(chat, "ping")
    \/ \E run \in StreamRuns : ProdClaim(run)
    \/ \E saved \in BOOLEAN : ProdEmit(saved)
    \/ ProdCleanup
    \/ ProdSettle
    \/ \E id \in 1..MaxTasks : TurnRetry(id)
    \/ SubNext

StreamSpec == Init /\ [][StreamNext]_vars

\* ---- StreamLiveSpec: one submitted turn and the stream on it -------------
\* The chat has one task, submitted and pending.  A worker of another
\* process may take it: its event_store is its own, nothing reaches the
\* tails of this process.  The event loop keeps running the generator, and
\* the wait's timeout fires when nothing wakes it: weak fairness of SubRun.
\* The stream reads the tails only, so the durable writes all go through.
LiveInit ==
    /\ tasks = create_for_chat(<<>>, 1, "agent", 1, "ping")
    /\ next_id = 2
    /\ wpc = [w \in Workers |-> "poll"]
    /\ wtask = [w \in Workers |-> NULL]
    /\ cpc = [c \in Clients |-> "idle"]
    /\ carg = [c \in Clients |-> NULL]
    /\ last = NoCall
    /\ ChatInit
    /\ SvcInit

ProdElsewhere(x0) ==
    /\ wpc[1] = "poll"
    /\ Len(task_events) < MaxEvents
    /\ LET row == claim_select(tasks, {}) IN
       /\ row # NULL
       /\ LET id == Val(row)
              claimed == claim_update(tasks, id, 2)
              x == execute_task(claimed[id], x0.o, x0.run, messages)
              cs == settle_calls(id, x.result)
          IN /\ tasks' = apply_calls(claimed, cs)
             /\ messages' = x.messages
             /\ task_events' = save_all(task_events, id, x.emitted)
             /\ emitted' = tail_all(emitted, id, x.emitted)
             /\ calls' = cs
    /\ UNCHANGED <<next_id, wpc, wtask, cpc, carg, last, events,
                   event_signals, orch, sub, faults, svcvars>>

LiveNext ==
    \/ \E run \in Runs : ProdClaim(run)
    \/ ProdEmit(TRUE)
    \/ ProdCleanup
    \/ ProdSettle
    \/ \E x0 \in Executions : ProdElsewhere(x0)
    \/ \E id \in 1..MaxTasks : TurnRetry(id)
    \/ SubNext

StreamLiveSpec == LiveInit /\ [][LiveNext]_vars /\ WF_vars(SubRun)


\* ---- CancelLiveSpec: a stream on a pending turn that is cancelled --------
\* No worker takes the chat's task.  Clients cancel it (DELETE /tasks/{id})
\* and submit further turns; the event loop keeps running the generator of
\* the stream, as in StreamLiveSpec.  With no producer no Event is ever set:
\* the generator's steps are the snapshot, the wait and its timeout.
IdleSubRun ==
    \/ SubSnapshot
    \/ SubWait
    \/ SubTimeout

CancelLiveNext ==
    \/ \E chat \in Chats : TurnSubmit(chat, "ping")
    \/ \E c \in Clients, id \in 1..MaxTasks : CancelRead(c, id)
    \/ \E c \in Clients : CancelWrite(c)
    \/ \E chat \in Chats : SubAttach(chat)
    \/ IdleSubRun

CancelLiveSpec == LiveInit /\ [][CancelLiveNext]_vars /\ WF_vars(IdleSubRun)

\* ---- BusSpec: the event store, a producer and several consumers ----------
\* The consumers are the coroutines of the event loop that run the cycle
\* of stream_events on one task: get_events, then wait_for_event.  The
\* producer is the turn of the task: add_event calls, then cleanup; a
\* retried task runs another turn under the same id.
\* A consumer is at "idle" before its snapshot, at "wait" between the
\* snapshot and the call of wait_for_event, "blocked" in Event.wait() on the
\* Event of the dict, "orphan" when blocked on an Event cleanup has dropped
\* from the dict, "released" once set() has resolved its wait and until the
\* event loop resumes it, "closed" when wait_for_event has raised.
\* early: add_event was called between the snapshot and the wait;
\* hit: add_event was called while the consumer was blocked.
BusTask == 1

\* get_events, lines 54-56
BusSnapshot(c) ==
    /\ cons[c].pc = "idle"
    /\ events' = get_events(events, BusTask)
    /\ cons' = [cons EXCEPT ![c] =
                   [pc |-> "wait", event_index |-> Len(events'[BusTask]),
                    early |-> FALSE, hit |-> FALSE, ret |-> "none"]]
    /\ UNCHANGED <<tasks, next_id, wpc, wtask, cpc, carg, last, messages,
                   event_signals, task_events, orch, sub, calls, faults,
                   emitted, running, now, rate_limits, recorded, identities,
                   secrets, reply,
                   environ>>

\* wait_for_event, lines 60-66: the Event is created if the dict has none;
\* wait() on an Event that is set returns at once, clear, return True
BusWait(c) ==
    /\ cons[c].pc = "wait"
    /\ IF BusTask \in DOMAIN event_signals /\ event_signals[BusTask]
       THEN /\ event_signals' = [event_signals EXCEPT ![BusTask] = FALSE]
            /\ cons' = [cons EXCEPT ![c].pc = "idle", ![c].ret = "True"]
       ELSE /\ event_signals' =
                  [k \in DOMAIN event_signals \cup {BusTask} |-> FALSE]
            /\ cons' = [cons EXCEPT ![c].pc = "blocked"]
    /\ UNCHANGED <<tasks, next_id, wpc, wtask, cpc, carg, last, messages,
                   events, task_events, orch, sub, calls, faults, emitted,
                   running, now, rate_limits, recorded, identities, secrets,
                   reply,
                   environ>>

\* add_event, lines 19-33: set() resolves the wait of every coroutine
\* blocked on the Event of the dict
BusEmit ==
    /\ Len(task_events) < MaxEvents
    /\ LET e == Event("text", 0, 0, "") IN
       /\ events' = tail_append(events, BusTask, e)
       /\ emitted' = tail_append(emitted, BusTask, e)
       /\ task_events' = save_to_db(task_events, BusTask, e)
    /\ event_signals' = signal_set(event_signals, BusTask)
    /\ cons' = [c \in Consumers |->
                  IF cons[c].pc = "blocked"
                  THEN [cons[c] EXCEPT !.pc = "released", !.hit = TRUE]
                  ELSE IF cons[c].pc = "orphan"
                  THEN [cons[c] EXCEPT !.hit = TRUE]
                  ELSE IF cons[c].pc = "wait"
                  THEN [cons[c] EXCEPT !.early = TRUE]
                  ELSE cons[c]]
    /\ UNCHANGED <<tasks, next_id, wpc, wtask, cpc, carg, last, messages,
                   orch, sub, calls, faults, running, now, rate_limits,
                   recorded, identities, secrets, reply,
                   environ>>

\* cleanup, lines 70-73: the blocked coroutines keep the Event they wait on
BusCleanup ==
    /\ BusTask \in DOMAIN events \/ BusTask \in DOMAIN event_signals
    /\ events' = pop(events, BusTask)
    /\ event_signals' = pop(event_signals, BusTask)
    /\ cons' = [c \in Consumers |->
                  IF cons[c].pc = "blocked"
                  THEN [cons[c] EXCEPT !.pc = "orphan"]
                  ELSE cons[c]]
    /\ UNCHANGED <<tasks, next_id, wpc, wtask, cpc, carg, last, messages,
                   task_events, orch, sub, calls, faults, emitted, running,
                   now, rate_limits, recorded, identities, secrets, reply,
                   environ>>

\* wait_for_event, lines 65-66, when the event loop resumes the coroutine:
\* self.event_signals[task_id].clear() raises KeyError if the entry is gone
BusResume(c) ==
    /\ cons[c].pc = "released"
    /\ IF BusTask \in DOMAIN event_signals
       THEN /\ event_signals' = [event_signals EXCEPT ![BusTask] = FALSE]
            /\ cons' = [cons EXCEPT ![c].pc = "idle", ![c].ret = "True"]
       ELSE /\ UNCHANGED event_signals
            /\ cons' = [cons EXCEPT ![c].pc = "closed",
                                    ![c].ret = "KeyError"]
    /\ UNCHANGED <<tasks, next_id, wpc, wtask, cpc, carg, last, messages,
                   events, task_events, orch, sub, calls, faults, emitted,
                   running, now, rate_limits, recorded, identities, secrets,
                   reply,
                   environ>>

\* wait_for_event, lines 67-68: the timeout elapses, return False
BusTimeout(c) ==
    /\ cons[c].pc \in {"blocked", "orphan"}
    /\ cons' = [cons EXCEPT ![c].pc = "idle", ![c].ret = "False"]
    /\ UNCHANGED <<tasks, next_id, wpc, wtask, cpc, carg, last, chatvars,
                   running, now, rate_limits, recorded, identities, secrets,
                   reply,
                   environ>>

BusNext ==
    \/ \E c \in Consumers : BusSnapshot(c)
    \/ \E c \in Consumers : BusWait(c)
    \/ BusEmit
    \/ BusCleanup
    \/ \E c \in Consumers : BusResume(c)
    \/ \E c \in Consumers : BusTimeout(c)

BusSpec == Init /\ [][BusNext]_vars


\* ---- AppendSpec: concurrent sessions of ChatManager.add_message ----------
\* Each caller opens a session, reads max(sequence) of the chat, and inserts
\* the row when the session flushes; the table has no unique constraint on
\* (chat_id, sequence) and the read takes no lock.
Appending == Cardinality({c \in DOMAIN cpc : cpc[c] = "append"})

AddRead(c, chat, role, content) ==
    /\ cpc[c] = "idle"
    /\ Len(messages) + Appending < MaxMessages
    /\ cpc' = [cpc EXCEPT ![c] = "append"]
    /\ carg' = [carg EXCEPT ![c] =
                  Some([chat |-> chat, role |-> role, content |-> content,
                        max_seq |-> max_sequence(messages, chat)])]
    /\ UNCHANGED <<tasks, next_id, wpc, wtask, last, chatvars, svcvars>>

AddInsert(c) ==
    /\ cpc[c] = "append"
    /\ LET a == Val(carg[c]) IN
       messages' = add_message(messages, a.chat, a.role, a.content, a.max_seq)
    /\ cpc' = [cpc EXCEPT ![c] = "idle"]
    /\ carg' = [carg EXCEPT ![c] = NULL]
    /\ UNCHANGED <<tasks, next_id, wpc, wtask, last, events, event_signals,
                   task_events, orch, sub, calls, faults, emitted, svcvars>>

AppendNext ==
    \/ \E c \in Clients, chat \in Chats, role \in Roles :
          AddRead(c, chat, role, Text("ping"))
    \/ \E c \in Clients : AddInsert(c)

AppendSpec == Init /\ [][AppendNext]_vars


\* ======================= properties =====================================
Min(a, b) == IF a < b THEN a ELSE b
IsTerminal(st) == st \in {"completed", "failed"}
ActiveOf(chat) ==
    {i \in DOMAIN tasks : tasks[i].chat_id = Some(chat)
                          /\ tasks[i].status \in {"pending", "running"}}

\* ---- C1 (ClaimSpec) ------------------------------------------------------
Returned == {w \in DOMAIN wpc : wpc[w] = "exec"}
GotNone == {w \in DOMAIN wpc : wpc[w] = "sleep"}
AllReturned == \A w \in DOMAIN wpc : wpc[w] \in {"exec", "sleep"}
\* rows that were pending when the claims started
Offered == {t \in DOMAIN tasks : tasks[t].status \in {"pending", "running"}}

\* C1: whatever the interleaving of the concurrent claim calls, no row is
\* held by two claimers, a row moved to running is held by exactly the
\* worker recorded in claimed_by, and once every call has returned each
\* offered row was returned by exactly one call: with M offered rows and N
\* callers, min(M, N) calls returned a task (M when M < N) and the other
\* N - M returned None.
C1_ExactlyOneClaimer ==
    /\ \A w1, w2 \in DOMAIN wpc :
          (w1 # w2 /\ wtask[w1] # NULL) => wtask[w1] # wtask[w2]
    /\ \A t \in Offered :
          tasks[t].status = "running" =>
             /\ Cardinality({w \in Returned : wtask[w] = Some(t)}) = 1
             /\ \A w \in Returned :
                   wtask[w] = Some(t) <=> tasks[t].claimed_by = Some(w)
    /\ AllReturned =>
          /\ Cardinality(Returned) = Min(Cardinality(Offered), NumClaimers)
          /\ Cardinality(Offered) < NumClaimers =>
                /\ \A t \in Offered : tasks[t].status = "running"
                /\ Cardinality(GotNone) = NumClaimers - Cardinality(Offered)

C1_Witness ==
    /\ AllReturned
    /\ Cardinality(Offered) >= 2
    /\ Cardinality(Offered) < NumClaimers
    /\ GotNone # {}
    /\ \A t \in Offered : tasks[t].status = "running"

\* ---- C2 (Spec) -----------------------------------------------------------
\* C2: at every instant every chat has at most one task that is pending or
\* running.
C2_OneActivePerChat ==
    \A chat \in Chats : Cardinality(ActiveOf(chat)) <= 1

\* ---- C3 (Spec) -----------------------------------------------------------
StatusEdges ==
    {<<"pending", "running">>, <<"running", "completed">>,
     <<"running", "failed">>, <<"failed", "pending">>}

\* C3: every change of a task's status follows an edge of the lifecycle
\* (pending->running, running->completed, running->failed,
\* failed->pending), only a pending row is deleted, completed is absorbing.
C3_LifecycleEdges ==
    [][\A id \in DOMAIN tasks :
          IF id \in DOMAIN tasks'
          THEN \/ tasks'[id].status = tasks[id].status
               \/ <<tasks[id].status, tasks'[id].status>> \in StatusEdges
          ELSE tasks[id].status = "pending"]_vars

\* ---- C4 (SerialClaimSpec) -----------------------------------------------------
\* C4: a claim call returns the pending row with the smallest created_at,
\* and changes exactly that row: status running, claimed_by the caller,
\* started_at stamped; with no pending row it returns None and changes
\* nothing.
C4_ClaimFIFO ==
    [][last'.op = "claim" =>
          LET cand == {i \in DOMAIN tasks : tasks[i].status = "pending"} IN
          IF cand = {}
          THEN last'.ret = "None" /\ last'.task = NULL /\ tasks' = tasks
          ELSE /\ last'.ret = "task"
               /\ last'.task # NULL
               /\ Val(last'.task) \in cand
               /\ \A j \in cand :
                     tasks[Val(last'.task)].created_at <= tasks[j].created_at
               /\ tasks' = [tasks EXCEPT ![Val(last'.task)] =
                              [@ EXCEPT !.status = "running",
                                        !.claimed_by = last'.arg,
                                        !.started_at = Some(utcnow)]]]_vars

C4_Witness ==
    /\ last.op = "claim"
    /\ last.ret = "task"
    /\ tasks[Val(last.task)].status = "running"
    /\ tasks[Val(last.task)].claimed_by = last.arg
    /\ \E j \in DOMAIN tasks :
          /\ tasks[j].status = "pending"
          /\ tasks[j].created_at > tasks[Val(last.task)].created_at

\* ---- C5 (Spec) -----------------------------------------------------------
\* C5: a completed task has a result and no error, a failed task has an
\* error, and a completed or failed task has completed_at.
C5_TerminalFields ==
    \A id \in DOMAIN tasks :
        /\ tasks[id].status = "completed" =>
              tasks[id].result # NULL /\ tasks[id].error = NULL
        /\ tasks[id].status = "failed" => tasks[id].error # NULL
        /\ IsTerminal(tasks[id].status) => tasks[id].completed_at # NULL

\* ---- C6 (SerialSettleSpec) -----------------------------------------------------
\* C6: complete or fail applied to a task that is already completed or
\* failed leaves its status, result and error as they were.
C6_SettleIdempotent ==
    [][\A id \in DOMAIN tasks :
          (/\ last'.op \in {"complete", "fail"}
           /\ last'.arg = Some(id)
           /\ IsTerminal(tasks[id].status))
          => /\ id \in DOMAIN tasks'
             /\ tasks'[id].status = tasks[id].status
             /\ tasks'[id].result = tasks[id].result
             /\ tasks'[id].error = tasks[id].error]_vars

\* ---- C7 (SerialRetrySpec) -----------------------------------------------------
\* C7: retry returns true exactly when the task exists and is failed, and
\* then the row is pending with claimed_by, started_at, completed_at and
\* error cleared and nothing else changed; otherwise it returns false and
\* the table is unchanged.
C7_RetryOnlyFailed ==
    [][last'.op = "retry" =>
          LET id == Val(last'.arg) IN
          IF id \in DOMAIN tasks /\ tasks[id].status = "failed"
          THEN /\ last'.ret = "True"
               /\ tasks' = [tasks EXCEPT ![id] =
                              [@ EXCEPT !.status = "pending",
                                        !.claimed_by = NULL,
                                        !.started_at = NULL,
                                        !.completed_at = NULL,
                                        !.error = NULL]]
          ELSE last'.ret = "False" /\ tasks' = tasks]_vars

C7_Witness ==
    /\ last.op = "retry"
    /\ last.ret = "True"
    /\ tasks[Val(last.arg)].status = "pending"
    /\ tasks[Val(last.arg)].error = NULL
    /\ \E j \in DOMAIN tasks : tasks[j].status = "completed"

\* ---- C8 (Spec) -----------------------------------------------------------
\* C8: a cancel call deletes the row only if the row is pending at that
\* moment; a running, completed or failed row is never removed, whatever
\* claim does concurrently.
C8_CancelOnlyPending ==
    [][\A c \in DOMAIN cpc :
          (cpc[c] = "cancel" /\ cpc'[c] = "idle") =>
             \A id \in DOMAIN tasks \ DOMAIN tasks' :
                 tasks[id].status = "pending"]_vars

\* ---- C9 (Spec) -----------------------------------------------------------
\* C9: claimed_by is set exactly on the tasks that are running, completed
\* or failed; a pending task has no claimed_by.
C9_ClaimedByIffClaimed ==
    \A id \in DOMAIN tasks :
        tasks[id].claimed_by # NULL
            <=> tasks[id].status \in {"running", "completed", "failed"}

C11_DenseSequences ==
    \A chat \in Chats :
        LET rows == MessagesOf(messages, chat) IN
        \A i \in 1..Len(rows) : rows[i].sequence = i

\* ---- C12 (TurnSpec) ------------------------------------------------------
\* the content blocks of a stream, in order, and the texts among them
RECURSIVE Blocks(_)
Blocks(items) ==
    IF items = <<>> THEN <<>> ELSE Head(items).content \o Blocks(Tail(items))
ResponseBuffer(items) ==
    [i \in 1..Len(SelectSeq(Blocks(items), LAMBDA b : b = "text")) |-> "a"]

TurnsDone(chat) ==
    Cardinality({i \in DOMAIN tasks : tasks[i].chat_id = Some(chat)
                                      /\ tasks[i].status = "completed"})

\* after n successful turns the chat's log is 1..2n, user then assistant
C12_Log ==
    \A chat \in Chats :
        LET rows == MessagesOf(messages, chat) IN
        /\ Len(rows) = 2 * TurnsDone(chat)
        /\ \A i \in 1..Len(rows) :
              /\ rows[i].sequence = i
              /\ rows[i].role = IF i % 2 = 1 THEN "user" ELSE "assistant"

\* C12: a chat turn that succeeds appends exactly two messages to the chat,
\* the user message with the task's prompt and then the assistant message
\* with the whole response buffer, at the next two sequence numbers; so
\* after n successful turns run one after the other on a fresh chat its log
\* has the sequences 1..2n, alternating user and assistant.
C12_TurnAppendsTwo ==
    /\ []C12_Log
    /\ [][\A x0 \in Executions :
            (TurnProcessOne(1, x0) /\ last'.ret = "True") =>
               LET id == Val(last'.task)
                   chat == Val(tasks'[id].chat_id)
                   n == Len(MessagesOf(messages, chat))
               IN tasks'[id].status = "completed" =>
                     messages' = messages \o
                        <<[chat_id |-> chat, role |-> "user",
                           content |-> <<Val(tasks'[id].prompt)>>,
                           sequence |-> n + 1],
                          [chat_id |-> chat, role |-> "assistant",
                           content |-> ResponseBuffer(x0.run.items),
                           sequence |-> n + 2]>>]_vars

C12_Witness ==
    /\ last.op = "process_one"
    /\ \E chat \in Chats :
          LET rows == MessagesOf(messages, chat) IN
          /\ Len(rows) = 4
          /\ rows[3].role = "user" /\ rows[3].content = <<"ping">>
          /\ rows[4].role = "assistant" /\ Len(rows[4].content) = 2

\* ---- C13 (TurnSpec) ------------------------------------------------------
\* C13: when the stream of a chat turn raises, an error event carrying the
\* exception text is emitted (after start), the turn returns failure,
\* the chat's messages are unchanged, and process_one settles the task
\* as failed with that text, with one call of fail.
C13_StreamErrorFails ==
    [][\A x0 \in Executions :
          (/\ TurnProcessOne(1, x0)
           /\ last'.ret = "True"
           /\ x0.run.sdk /\ x0.run.fault = "stream"
           /\ tasks'[Val(last'.task)].prompt = Some("ping")) =>
             LET id == Val(last'.task) IN
             /\ messages' = messages
             /\ Len(task_events') >= Len(task_events) + 2
             /\ task_events'[Len(task_events) + 1].event.type = "start"
             /\ task_events'[Len(task_events')].task_id = id
             /\ task_events'[Len(task_events')].event =
                   Event("error", 0, 0, "boom")
             /\ calls' = <<SettleCall("fail", id, NULL, "boom")>>
             /\ tasks'[id].status = "failed"
             /\ tasks'[id].error = Some("boom")
             /\ tasks'[id].result = NULL]_vars

C13_Witness ==
    /\ last.op = "process_one" /\ last.ret = "True"
    /\ tasks[Val(last.task)].status = "failed"
    /\ tasks[Val(last.task)].error = Some("boom")
    /\ Len(task_events) >= 3
    /\ task_events[Len(task_events)].event.type = "error"
    /\ \E i \in DOMAIN task_events : task_events[i].event.type = "text"
    /\ messages = <<>>

\* ---- C14 (AnyTurnSpec) ---------------------------------------------------
\* C14: the events one execution of a chat agent task emits begin with
\* start and end with exactly one terminal event, complete when the turn
\* succeeded and error when it failed, with no terminal event before the
\* last one; every execution that returns to the worker has emitted it.
C14_EventBrackets ==
    [][(last'.op = "process_one" /\ last'.ret = "True") =>
          LET id == Val(last'.task)
              new == SubSeq(task_events', Len(task_events) + 1,
                            Len(task_events'))
          IN /\ Len(new) >= 2
             /\ \A i \in 1..Len(new) : new[i].task_id = id
             /\ new[1].event.type = "start"
             /\ new[Len(new)].event.type =
                   IF tasks'[id].status = "completed" THEN "complete"
                   ELSE "error"
             /\ \A i \in 1..(Len(new) - 1) :
                   new[i].event.type \notin {"complete", "error"}]_vars

\* ---- C18 (WorkSpec) ------------------------------------------------------
\* C18: process_one settles the task it claims with exactly one call:
\* complete(id, result) when the executor returned success, fail(id, error)
\* when it returned failure (an unknown kind included), fail(id, text of
\* the exception) when it raised; the row ends completed or failed
\* accordingly, no other row changes, and process_one returns true.  When
\* claim returns no task it returns false and changes no task.
C18_SettlesOnce ==
    [][\A x0 \in Executions :
          TurnProcessOne(1, x0) =>
             IF {i \in DOMAIN tasks : tasks[i].status = "pending"} = {}
             THEN last'.ret = "False" /\ tasks' = tasks /\ calls' = <<>>
             ELSE LET id == Val(last'.task)
                      kind == tasks[id].task_type
                      ok == \/ kind = "script" /\ x0.o = "success"
                            \/ /\ kind = "agent"
                               /\ x0.run.sdk /\ x0.run.fault = "none"
                               /\ tasks[id].prompt = Some("ping")
                  IN /\ last'.ret = "True"
                     /\ tasks[id].status = "pending"
                     /\ \A j \in DOMAIN tasks \ {id} : tasks'[j] = tasks[j]
                     /\ Len(calls') = 1
                     /\ calls'[1].id = id
                     /\ IF ok
                        THEN /\ calls'[1].op = "complete"
                             /\ Val(calls'[1].result).success
                             /\ tasks'[id].status = "completed"
                             /\ tasks'[id].result = calls'[1].result
                             /\ tasks'[id].error = NULL
                        ELSE /\ calls'[1].op = "fail"
                             /\ tasks'[id].status = "failed"
                             /\ tasks'[id].error = Some(calls'[1].error)
                             /\ tasks'[id].result = NULL
                             /\ kind = "script" =>
                                   calls'[1].error = ErrorText(x0.o)
                             /\ kind = "batch" =>
                                   calls'[1].error = "Unknown task type"]_vars

C18_Witness ==
    /\ last.op = "process_one" /\ last.ret = "True"
    /\ tasks[Val(last.task)].task_type = "batch"
    /\ tasks[Val(last.task)].status = "failed"
    /\ calls = <<SettleCall("fail", Val(last.task), NULL, "Unknown task type")>>
    /\ \E j \in DOMAIN tasks : tasks[j].status = "completed"

\* ---- C15 (StreamSpec) ----------------------------------------------------
TaskRows(id) == SelectSeq(task_events, LAMBDA r : r.task_id = id)

\* C15: for every task the durable sequence numbers are strictly increasing
\* in emission order, without duplicates, and while the task has an
\* in-memory tail the event at tail index i is the durable event with
\* sequence i + 1 (a retried task and a failed durable write included).
C15_EventSequences ==
    \A id \in DOMAIN tasks :
        LET rows == TaskRows(id) IN
        /\ \A i, j \in 1..Len(rows) :
              i < j => rows[i].sequence < rows[j].sequence
        /\ id \in DOMAIN events =>
              \A i \in 1..Len(events[id]) :
                  \E k \in 1..Len(rows) :
                      /\ rows[k].sequence = i
                      /\ rows[k].event = events[id][i]

\* ---- C16 (StreamSpec) ----------------------------------------------------
\* the events of the task's first execution, through its terminal event
FirstRun(id) == IF id \in DOMAIN emitted THEN yielded(emitted[id]) ELSE <<>>
IsPrefix(a, b) == Len(a) <= Len(b) /\ SubSeq(b, 1, Len(a)) = a

\* C16: a stream attached to the chat's active task before the task's first
\* event delivers the task's events in emission order, each once, and when
\* it has ended it has delivered all of them up to and including the
\* terminal event the orchestrator emitted, and nothing after it, whatever
\* the interleaving of the emits and cleanup with the snapshot/wait cycle.
C16_StreamDelivers ==
    (sub.early /\ ends_stream(FirstRun(Val(sub.task)))) =>
        /\ IsPrefix(sub.got, FirstRun(Val(sub.task)))
        /\ sub.pc = "closed" => sub.got = FirstRun(Val(sub.task))

\* ---- C17 (StreamLiveSpec) ------------------------------------------------
\* C17: a stream opened on an active task does not stay open for ever once
\* the task is completed or failed for good: whether or not a terminal
\* event reaches it through the tail, after a timeout the handler reads
\* the task's status and ends the stream.
StreamTaskSettled ==
    /\ sub.task # NULL
    /\ Val(sub.task) \in DOMAIN tasks
    /\ tasks[Val(sub.task)].status \in {"completed", "failed"}

C17_StreamEnds ==
    (sub.pc \notin {"none", "closed"} /\ StreamTaskSettled)
        ~> (sub.pc = "closed" \/ ~StreamTaskSettled)

C17_Witness ==
    /\ sub.pc = "closed"
    /\ sub.task # NULL
    /\ tasks[Val(sub.task)].status \in {"completed", "failed"}
    /\ Val(sub.task) \in DOMAIN emitted
    /\ ends_stream(emitted[Val(sub.task)])
    /\ sub.got = <<Event("complete", 0, 0, "")>>

\* ---- C19 (FaultSpec) ----------------------------------------------------
\* C19: a task that process_one claimed is completed or failed when the
\* call is over, whether it returned or raised, store errors during the
\* message persistence and during the settle calls included.  Nothing but
\* the process_one that claimed a task settles it, so a task left running
\* there stays running for ever.
C19_ClaimedIsSettled ==
    (last.op = "process_one" /\ last.task # NULL) =>
        tasks[Val(last.task)].status \in {"completed", "failed"}

C21_NoClaimAfterSignal ==
    /\ [](\A w \in Workers :
            wpc[w] = "exited" =>
                \A id \in DOMAIN tasks :
                    ~(tasks[id].status = "running"
                      /\ tasks[id].claimed_by = Some(w)))
    /\ [][\A w \in Workers :
            (ClaimSelect(w) /\ wpc'[w] = "claiming") => running[w]]_vars

\* ---- C22 (RateSpec) -----------------------------------------------------
\* the requests of the identity recorded within the last hour, oldest
\* first, and the number recorded this calendar day
Window(identity_id) ==
    SelectSeq(recorded,
              LAMBDA r : r.identity_id = identity_id /\ r.at > now - Hour)
RecordedToday(identity_id) ==
    Len(SelectSeq(recorded,
                  LAMBDA r : /\ r.identity_id = identity_id
                             /\ today(r.at) = today(now)))

\* C22: with can_request and record_request called in pairs by one caller,
\* and the daily limit not reached, can_request admits exactly while fewer
\* than hourly_limit requests were recorded within the last hour: the
\* first hourly_limit are admitted, the next is denied with wait_seconds
\* the whole seconds until the oldest of them is one hour old, between 0
\* and 3600, and each request that ages out admits one more.
C22_SlidingHour ==
    (reply.op = "can_request" /\ RecordedToday(Ident) < daily_limit) =>
        /\ reply.ok <=> Len(Window(Ident)) < hourly_limit
        /\ ~reply.ok =>
              /\ Val(reply.value)
                    = total_seconds(Window(Ident)[1].at + Hour - now)
              /\ Val(reply.value) >= 0
              /\ Val(reply.value) <= total_seconds(Hour)

\* ---- C23, C24 (BurstSpec) -----------------------------------------------
\* C23: with every record_request preceded by a can_request of the same
\* caller that returned true, no rate-limit row ever stores more than
\* hourly_limit + 1 timestamps.
C23_ListBounded ==
    \A i \in DOMAIN rate_limits :
        Len(rate_limits[i].hourly_timestamps) <= hourly_limit + 1

\* C24: whatever the number of concurrent callers of can_request then
\* record_request and their interleaving, at most hourly_limit + 1 requests
\* are recorded within the hour and no daily_count is above
\* daily_limit + 1.
C24_OvershootByOne ==
    /\ Len(Window(Ident)) <= hourly_limit + 1
    /\ \A i \in DOMAIN rate_limits :
          rate_limits[i].daily_count <= daily_limit + 1

\* ---- C25 (IdentSpec) ----------------------------------------------------
\* the identities of the platform that are active and that the rate limiter
\* admits for the action now
Admitted(platform) ==
    {i \in DOMAIN identities :
        /\ identities[i].platform = platform
        /\ identities[i].status = "active"
        /\ can_request(rate_limits, i, Action, now).ok}

\* C25: get_available(platform, action) returns an identity of the
\* platform whose status is active and that the rate limiter admits, such
\* that no other admitted active identity of the platform has a smaller
\* last_used_at (never used counting as smallest); it returns None exactly
\* when no active identity of the platform is admitted.
C25_LeastRecentlyUsed ==
    (reply.op = "get_available" /\ Val(reply.value).action_type # NULL) =>
        LET asked == Val(reply.value) IN
        IF asked.id = NULL
        THEN Admitted(asked.platform) = {}
        ELSE /\ Val(asked.id) \in Admitted(asked.platform)
             /\ \A j \in Admitted(asked.platform) :
                   ~sorts_before(identities[j], identities[Val(asked.id)])

\* get_available passes over a rate-limited identity that was used earlier,
\* and over a blocked one, and returns the next
C25_Witness ==
    /\ reply.op = "get_available"
    /\ Val(reply.value).action_type # NULL
    /\ Val(reply.value).id # NULL
    /\ \E j \in DOMAIN identities :
          /\ identities[j].platform = Val(reply.value).platform
          /\ identities[j].status = "active"
          /\ j \notin Admitted(Val(reply.value).platform)
          /\ sorts_before(identities[j], identities[Val(Val(reply.value).id)])

\* ---- C26 (VaultSpec) ----------------------------------------------------
\* the values of the secrets of (key, scope, user_id) as get is to return
\* them: None for a secret that has expired
Stored(key, scope, user_id) ==
    {IF secrets[i].expires_at # NULL /\ Val(secrets[i].expires_at) < now
     THEN NULL ELSE Some(secrets[i].encrypted_value[2]) :
        i \in {j \in DOMAIN secrets : /\ secrets[j].key = key
                                      /\ secrets[j].scope = scope
                                      /\ secrets[j].user_id = user_id}}

\* C26: get(key, user_id) returns the value of the user secret of
\* (key, user_id) when there is one, else the value of the platform secret
\* of key, else None; the value of an expired secret is None and the
\* secret stays in the store.
C26_ScopedLookup ==
    reply.op = "get" =>
        LET asked == Val(reply.value) IN
        IF asked.user_id # NULL /\ Stored(asked.key, "USER", asked.user_id) # {}
        THEN asked.value \in Stored(asked.key, "USER", asked.user_id)
        ELSE IF Stored(asked.key, "PLATFORM", NULL) # {}
        THEN asked.value \in Stored(asked.key, "PLATFORM", NULL)
        ELSE asked.value = NULL

\* ---- C27 (UpsertSpec) ---------------------------------------------------
\* C27: the secrets table never holds two rows with the same key, scope
\* and user_id.
C27_OneRowPerTriple ==
    \A i, j \in DOMAIN secrets :
        (/\ secrets[i].key = secrets[j].key
         /\ secrets[i].scope = secrets[j].scope
         /\ secrets[i].user_id = secrets[j].user_id) => i = j

\* ---- C28 (FaultSpec) ----------------------------------------------------
\* C28: once process_one has run the turn of a chat agent task, whatever
\* way the turn ended, the event store holds no tail and no signal for the
\* task.
C28_TailRemoved ==
    (/\ last.op = "process_one"
     /\ last.task # NULL
     /\ Val(last.task) \in DOMAIN tasks
     /\ tasks[Val(last.task)].task_type = "agent"
     /\ tasks[Val(last.task)].chat_id # NULL) =>
        /\ Val(last.task) \notin DOMAIN events
        /\ Val(last.task) \notin DOMAIN event_signals

\* ---- C29, C30 (BusSpec) -------------------------------------------------
\* C29: when add_event is called on the task between a consumer's snapshot
\* and its call of wait_for_event, that call returns True at once: the
\* consumer is never left blocked, or timed out, with the event unseen.
C29_NoLostWakeup ==
    \A c \in Consumers :
        cons[c].early => cons[c].pc = "wait" \/ cons[c].ret = "True"

\* C30: every consumer blocked in wait_for_event on the task when
\* add_event is called on it is released and its wait returns True; False
\* is returned only to a consumer during whose wait no add_event was
\* called.
C30_ReleasesAll ==
    \A c \in Consumers :
        cons[c].hit => cons[c].pc = "released" \/ cons[c].ret = "True"

\* ---- C36 (RateSpec) -----------------------------------------------------
\* C36: with one caller recording only what can_request has just admitted,
\* at no instant are more than hourly_limit requests of the identity less
\* than one hour old, the hours that contain midnight included.
C36_HourlyLimitKept == Len(Window(Ident)) <= hourly_limit

\* ---- C37 (BurstSpec) ----------------------------------------------------
\* C37: when no record_request is in progress, the day's row counts every
\* record_request made that day and lists the instant of every one made
\* within the last hour.
C37_NoRecordLost ==
    (\A c \in DOMAIN cpc : cpc[c] # "recording") =>
        \A i \in rate_rows(rate_limits, Ident, Action, today(now)) :
            /\ rate_limits[i].daily_count = RecordedToday(Ident)
            /\ SelectSeq(rate_limits[i].hourly_timestamps,
                         LAMBDA ts : ts > now - Hour)
                 = [k \in DOMAIN Window(Ident) |-> Window(Ident)[k].at]

\* ---- C32 (FaultSpec) ----------------------------------------------------
\* the tasks a worker has claimed and that are still running
RunningOf(w) ==
    {id \in DOMAIN tasks :
        tasks[id].status = "running" /\ tasks[id].claimed_by = Some(w)}

\* C32: at every instant at most one task claimed by a given worker is
\* running.
C32_SingleSlot ==
    \A w \in DOMAIN wpc : Cardinality(RunningOf(w)) <= 1

\* ---- C34 (Spec) ---------------------------------------------------------
\* C34: a step that finds a task running leaves it running with the same
\* claimed_by and started_at, or settles it with both unchanged: a running
\* task is never made pending again or claimed by another worker.
C34_RunningIsHeld ==
    [][\A id \in DOMAIN tasks :
          (tasks[id].status = "running" /\ id \in DOMAIN tasks') =>
              /\ tasks'[id].status \in {"running", "completed", "failed"}
              /\ tasks'[id].claimed_by = tasks[id].claimed_by
              /\ tasks'[id].started_at = tasks[id].started_at]_vars

\* ---- C40 (StreamSpec) ---------------------------------------------------
\* C40: a task that is completed or failed, whose turn has therefore called
\* cleanup, has no event list and no waiter signal in the event store,
\* whatever the subscriber of the stream has done since.
C40_NothingKept ==
    \A id \in DOMAIN tasks :
        task_finished(tasks, id) =>
            /\ id \notin DOMAIN events
            /\ id \notin DOMAIN event_signals

\* ---- C39 (StreamSpec) ---------------------------------------------------
\* C39: when the stream has ended with an event of type complete and its
\* task has been settled, the task is completed: a failed task is never
\* reported to the subscriber as complete.
C39_CompleteMeansCompleted ==
    (/\ sub.pc = "closed"
     /\ sub.task # NULL
     /\ ends_stream(sub.got)
     /\ sub.got[Len(sub.got)].type = "complete"
     /\ task_finished(tasks, Val(sub.task))) =>
        tasks[Val(sub.task)].status = "completed"

\* ---- C38 (CancelLiveSpec) -----------------------------------------------
\* C38: a stream open on a task that was cancelled while pending, so that
\* its row no longer exists, eventually ends.
C38_CancelledStreamEnds ==
    (/\ sub.pc \notin {"none", "closed"}
     /\ sub.task # NULL
     /\ Val(sub.task) \notin DOMAIN tasks) ~> (sub.pc = "closed")

\* ---- C35 (PersistSpec) --------------------------------------------------
\* C35: the messages of a chat alternate user, assistant, starting with
\* user, and when no task of the chat is running the last one is an
\* assistant message.
C35_TurnIsAtomic ==
    \A chat \in Chats :
        LET log == MessagesOf(messages, chat) IN
        /\ \A k \in DOMAIN log :
              log[k].role = IF k % 2 = 1 THEN "user" ELSE "assistant"
        /\ (\A id \in DOMAIN tasks :
               tasks[id].chat_id = Some(chat) => tasks[id].status # "running")
             => Len(log) % 2 = 0

\* ---- C33 (AnyTurnSpec) --------------------------------------------------
\* list_messages, lines 175-177: the tasks of the chat, ORDER BY created_at
\* (the rows of one chat are created one after another: the id breaks no
\* tie the store could break otherwise)
RECURSIVE by_created_at(_, _)
by_created_at(store, ids) ==
    IF ids = {} THEN <<>>
    ELSE LET i == CHOOSE i \in ids :
                     \A j \in ids :
                         \/ store[i].created_at < store[j].created_at
                         \/ /\ store[i].created_at = store[j].created_at
                            /\ i <= j
         IN <<i>> \o by_created_at(store, ids \ {i})

chat_tasks(store, chat) ==
    by_created_at(store, {i \in DOMAIN store : store[i].chat_id = Some(chat)})

\* list_messages, line 179: the user messages of the chat, by sequence
user_msg_indices(table, chat) ==
    SelectSeq(MessagesOf(table, chat), LAMBDA m : m.role = "user")

\* list_messages, lines 183-186: the k-th task of the chat is matched to
\* the k-th user message, as far as there are user messages
task_for_user(store, table, chat) ==
    LET ts == chat_tasks(store, chat)
        us == user_msg_indices(table, chat)
    IN [k \in {n \in DOMAIN ts : n <= Len(us)} |-> ts[k]]

\* C33: the task that list_messages matches to the k-th user message of a
\* chat, the k-th task of the chat by creation time, is the task that wrote
\* that message: the message's content is that task's prompt.
C33_MatchedTaskWroteMessage ==
    \A chat \in Chats :
        LET match == task_for_user(tasks, messages, chat)
            us == user_msg_indices(messages, chat)
        IN \A k \in DOMAIN match :
              us[k].content = Text(Val(tasks[match[k]].prompt))

\* ---- C31 (AgentSpec) ----------------------------------------------------
\* C31: after a call of execute_agent, every key of the secrets it was
\* given has in os.environ the value it had before the call, and is absent
\* if it was absent, whether the call returned early, returned a result or
\* the agent stream raised.
C31_EnvironRestored ==
    [][reply'.op = "run_agent" =>
          \A key \in DOMAIN reply'.value.secrets :
              environ_get(environ', key) = environ_get(environ, key)]_vars

\* the agent stream raised in a run that was given two secrets, one under a
\* name the process had no variable for and one under a name it had a
\* value for: the first is absent again, the second has its value again
C31_Witness ==
    /\ reply.op = "run_agent"
    /\ reply.value.run.fault = "stream"
    /\ \E absent, present \in DOMAIN reply.value.secrets :
          /\ absent \notin DOMAIN environ
          /\ present \in DOMAIN environ
          /\ environ[present] = "inherited"

====
